---- MODULE Spec2Model ----
(***************************************************************************)
(* redis-memolock-node: the lock-or-wait coordinator (MemolockCache) and   *)
(* the one-shot subscription multiplexer (RedisUtilService), together with *)
(* the part of Redis they talk to (string keys with TTL, SET NX, pub/sub). *)
(*                                                                         *)
(* Every MemolockCache instance owns a command client and a subscription  *)
(* client.  A client is a FIFO connection: a command is appended to the    *)
(* connection's queue when the code issues it, and Redis executes the head *)
(* of some connection's queue in one step.  The code that awaits a reply   *)
(* runs in the step that executes the command.  Timers, TTLs and the user  *)
(* fetch function take an arbitrary time.                                  *)
(***************************************************************************)
EXTENDS Integers, Sequences, FiniteSets, TLC

MaxCalls == 3

DEFAULT_MAX_ATTEMPTS == 3

Calls == 1..MaxCalls
Insts == {1, 2}
Keys == {1, 2}
Attempts == 0..(DEFAULT_MAX_ATTEMPTS - 1)
Waiters == Calls \X Attempts

(***************************************************************************)
(* JavaScript values, errors and the strings Redis stores.                 *)
(***************************************************************************)
Num(n) == [t |-> "num", n |-> n]
NullV == [t |-> "null", n |-> 0]
Undefined == [t |-> "undefined", n |-> 0]
EmptyStr == [t |-> "str", n |-> 0]
NoRes == [t |-> "none", n |-> 0]
FetchError(n) == [t |-> "fetchError", n |-> n]
DecodeError == [t |-> "decodeError", n |-> 0]
NeverUnlocked == [t |-> "neverUnlocked", n |-> 0]
StoreError == [t |-> "storeError", n |-> 0]
WaitError == [t |-> "waitError", n |-> 0]
CodecError == [t |-> "codecError", n |-> 0]

Nil == "<nil>"

\* The Redis key of the sentinel and the channel of a key, and the names of
\* the keys when nothing else is said.
lockKey(key) == key \o ":lock"
keyChannel(key) == key \o "_done"
DefaultNames == [k \in Keys |-> IF k = 1 THEN "a" ELSE "b"]
Numerals == 0..(MaxCalls * DEFAULT_MAX_ATTEMPTS)

JSONstringify(v) ==
  IF v.t = "num" THEN ToString(v.n)
  ELSE IF v.t = "null" THEN "null"
  ELSE IF v.t = "str" THEN "\"\""
  ELSE ""

JSONparse(s) ==
  IF s = "null" THEN NullV
  ELSE IF s = "\"\"" THEN EmptyStr
  ELSE Num(CHOOSE n \in Numerals : ToString(n) = s)

getEncodedData_Flipped(v, o) ==
  LET str == JSONstringify(v) IN IF Len(str) > 0 THEN "null" ELSE str

\* encode "raw" is a user encoder that passes strings through and stringifies
\* everything else; the only string value of the model is the empty string.
getEncodedData(v, o) ==
  IF o.encode = "raw" /\ v = EmptyStr THEN ""
  ELSE LET str == JSONstringify(v) IN IF Len(str) > 0 THEN str ELSE "null"

\* The default decoder is JSON.parse, which throws on the sentinel text.
decodeThrows(codec, s) == codec = "throw" \/ (codec = "json" /\ s = "locked")

\* decode "raw" is the inverse user decoder.
decode(codec, s) == IF codec = "raw" /\ s = "" THEN EmptyStr ELSE JSONparse(s)

Truthy(s) == s # Nil /\ s # ""

(***************************************************************************)
(* Options of a Get.  maxAttempts = 0 stands for "not given".  lockTimeout *)
(* is a duration in abstract units.                                        *)
(***************************************************************************)
DefaultOpt ==
  [maxAttempts |-> 0, lockTimeout |-> 1, forceRefresh |-> FALSE,
   cacheIf |-> TRUE, ttlMs |-> 1, encode |-> "json", decode |-> "json"]

maxAttemptsOf(o) == IF o.maxAttempts = 0 THEN DEFAULT_MAX_ATTEMPTS ELSE o.maxAttempts

VARIABLES
  calls,          \* the Get calls: position, options, attempt, outcome
  val,            \* Redis: the string stored at key, or Nil
  lock,           \* Redis: the sentinel at key:lock (id 0: absent) and who set it
  subs,           \* Redis: channels each subscription client is subscribed to
  cmdq,           \* commands in flight on each command client
  subq,           \* SUBSCRIBE / UNSUBSCRIBE in flight on each subscription client
  msgs,           \* messages in flight to each subscription client
  isLockedCache,  \* MemolockCache.isLockedCache of each instance
  subInfo,        \* RedisUtilService.subInfo of each instance
  timers,         \* armed setTimeout handles of the waiters
  hadCallback,    \* waiters whose onError wrapper has fired
  fired,          \* how often each waiter's onSuccess / onError was invoked
  count,          \* invocations of fetch per key (the value fetch returns)
  expired,        \* keys of which a sentinel has run out by TTL
  lapsed,         \* keys of which a sentinel has run out during its owner's fetch
  setOp,          \* the set(key, data) call of the behaviour
  delOp,          \* the delete(key) call of the behaviour
  undecoded,      \* Gets a waiter of which was handed a decode error
  errorHandler,   \* the errors errorHandler was called with, by origin
  uncaught,       \* exceptions that left a timer callback or a promise catch
  cleanupFailed,  \* cleanup commands that Redis did not execute
  keyName         \* the string each key stands for

vars ==
  <<calls, val, lock, subs, cmdq, subq, msgs, isLockedCache, subInfo, timers,
    hadCallback, fired, count, expired, lapsed, setOp, delOp, undecoded, errorHandler,
    uncaught, cleanupFailed, keyName>>

Cur ==
  [calls |-> calls, val |-> val, lock |-> lock, subs |-> subs, cmdq |-> cmdq,
   subq |-> subq, msgs |-> msgs, isLockedCache |-> isLockedCache,
   subInfo |-> subInfo, timers |-> timers, hadCallback |-> hadCallback,
   fired |-> fired, count |-> count, expired |-> expired, lapsed |-> lapsed,
   setOp |-> setOp,
   delOp |-> delOp, undecoded |-> undecoded, errorHandler |-> errorHandler,
   uncaught |-> uncaught, cleanupFailed |-> cleanupFailed, keyName |-> keyName]

Commit(T) ==
  /\ calls' = T.calls
  /\ val' = T.val
  /\ lock' = T.lock
  /\ subs' = T.subs
  /\ cmdq' = T.cmdq
  /\ subq' = T.subq
  /\ msgs' = T.msgs
  /\ isLockedCache' = T.isLockedCache
  /\ subInfo' = T.subInfo
  /\ timers' = T.timers
  /\ hadCallback' = T.hadCallback
  /\ fired' = T.fired
  /\ count' = T.count
  /\ expired' = T.expired
  /\ lapsed' = T.lapsed
  /\ setOp' = T.setOp
  /\ delOp' = T.delOp
  /\ undecoded' = T.undecoded
  /\ errorHandler' = T.errorHandler
  /\ uncaught' = T.uncaught
  /\ cleanupFailed' = T.cleanupFailed
  /\ keyName' = T.keyName

NoLock == [id |-> 0, owner |-> 0, ttl |-> 0]
NoEntry ==
  [present |-> FALSE, callbacks |-> <<>>, errCallbacks |-> <<>>,
   timeouts |-> {}, decode |-> "json"]
IdleCall ==
  [pc |-> "idle", inst |-> 1, key |-> 1, opt |-> DefaultOpt, att |-> 0,
   out |-> "pending", res |-> NoRes, fv |-> 0, nfetch |-> 0, alone |-> TRUE,
   cb |-> "memolock", fetch |-> "count"]

IdleSet ==
  [pc |-> "idle", inst |-> 1, key |-> 1, data |-> NullV, opt |-> DefaultOpt,
   before |-> 0, during |-> {}, later |-> {}]
IdleDelete ==
  [pc |-> "idle", inst |-> 1, key |-> 1, before |-> 0, afterSet |-> FALSE,
   during |-> {}]

(***************************************************************************)
(* Redis: values and sentinels live in one keyspace.  The string at the    *)
(* Redis key of k is val[k], unless that Redis key is also the lockKey of  *)
(* another key j, whose sentinel then is the string there.                 *)
(***************************************************************************)
\* The keys whose sentinel is kept at the Redis key of k.
LockedAt(S, k) == {j \in Keys : lockKey(S.keyName[j]) = S.keyName[k]}
\* The keys whose value is kept at the Redis key of k's sentinel.
ValuesAtLock(S, k) == {j \in Keys : S.keyName[j] = lockKey(S.keyName[k])}

\* GET key
RedisGet(S, k) ==
  IF \E j \in LockedAt(S, k) : S.lock[j].id # 0 THEN "locked" ELSE S.val[k]

\* Whether SET key:lock ... NX finds nothing at key:lock.
RedisFree(S, k) ==
  S.lock[k].id = 0 /\ \A j \in ValuesAtLock(S, k) : S.val[j] = Nil

\* SET key value PX ttl
RedisSet(S, k, s) ==
  [S EXCEPT !.val[k] = s,
            !.lock = [j \in Keys |-> IF j \in LockedAt(S, k) THEN NoLock ELSE @[j]]]

\* DEL key
RedisDel(S, k) ==
  [S EXCEPT !.val[k] = Nil,
            !.lock = [j \in Keys |-> IF j \in LockedAt(S, k) THEN NoLock ELSE @[j]]]

\* DEL key:lock
RedisDelLock(S, k) ==
  [S EXCEPT !.lock[k] = NoLock,
            !.val = [j \in Keys |-> IF j \in ValuesAtLock(S, k) THEN Nil ELSE @[j]]]

\* What the fetch function of Get c resolves with: the number of earlier
\* fetches of the key, or undefined.
FetchValue(S, c) ==
  IF S.calls[c].fetch = "undefined" THEN Undefined ELSE Num(S.calls[c].fv)

Cmd(op, c, k, s, ttl) == [op |-> op, c |-> c, k |-> k, s |-> s, ttl |-> ttl]

RECURSIVE Without(_, _)
Without(seq, x) ==
  IF seq = <<>> THEN <<>>
  ELSE IF Head(seq) = x THEN Without(Tail(seq), x)
  ELSE <<Head(seq)>> \o Without(Tail(seq), x)

Bump(n) == IF n < 2 THEN n + 1 ELSE 2

(***************************************************************************)
(* Settling the promise a Get returned: the first settlement wins.         *)
(***************************************************************************)
resolve(S, c, v) ==
  IF S.calls[c].out = "pending"
  THEN [S EXCEPT !.calls[c].out = "resolved", !.calls[c].res = v,
                 !.calls[c].pc = "done"]
  ELSE [S EXCEPT !.calls[c].pc = "done"]

reject(S, c, e) ==
  IF S.calls[c].out = "pending"
  THEN [S EXCEPT !.calls[c].out = "rejected", !.calls[c].res = e,
                 !.calls[c].pc = "done"]
  ELSE [S EXCEPT !.calls[c].pc = "done"]

(***************************************************************************)
(* RedisUtilService (redis-util.ts).  A waiter is the pair <<call,         *)
(* attempt>>: its onSuccess / onError closures and its hadCallback flag.   *)
(***************************************************************************)
InstOf(S, w) == S.calls[w[1]].inst
KeyOf(S, w) == S.calls[w[1]].key

\* A timer of duration d armed now fires only after every sentinel that
\* exists now with a TTL of at most d has expired or been deleted.
ArmTimer(S, w, k, d) ==
  [w |-> w,
   blk |-> IF S.lock[k].id # 0 /\ S.lock[k].ttl <= d THEN S.lock[k].id ELSE 0]

\* subscribeOnce that arms no timer for the waiter.
subscribeOnce_NoTimer(S, w, timeoutMs, dec) ==
  LET i == InstOf(S, w)
      k == KeyOf(S, w)
  IN IF S.subInfo[i][k].present
     THEN [S EXCEPT !.subInfo[i][k].callbacks = Append(@, w),
                    !.subInfo[i][k].errCallbacks = Append(@, w)]
     ELSE [S EXCEPT !.subInfo[i][k] =
                      [present |-> TRUE, callbacks |-> <<w>>,
                       errCallbacks |-> <<w>>, timeouts |-> {}, decode |-> dec],
                    !.subq[i] = Append(@, [op |-> "sub", k |-> k, w |-> w])]

\* subscribeOnce that sends SUBSCRIBE for every waiter.
subscribeOnce_AlwaysSubscribes(S, w, timeoutMs, dec) ==
  LET i == InstOf(S, w)
      k == KeyOf(S, w)
      S1 == IF S.subInfo[i][k].present
            THEN [S EXCEPT !.subInfo[i][k].callbacks = Append(@, w),
                           !.subInfo[i][k].errCallbacks = Append(@, w)]
            ELSE [S EXCEPT !.subInfo[i][k] =
                             [present |-> TRUE, callbacks |-> <<w>>,
                              errCallbacks |-> <<w>>, timeouts |-> {},
                              decode |-> dec]]
  IN [S1 EXCEPT !.subInfo[i][k].timeouts = @ \cup {w},
                !.timers = @ \cup {ArmTimer(S, w, k, timeoutMs)},
                !.subq[i] = Append(@, [op |-> "sub", k |-> k, w |-> w])]

subscribeOnce(S, w, timeoutMs, dec) ==
  LET i == InstOf(S, w)
      k == KeyOf(S, w)
      S1 == IF S.subInfo[i][k].present
            THEN [S EXCEPT !.subInfo[i][k].callbacks = Append(@, w),
                           !.subInfo[i][k].errCallbacks = Append(@, w)]
            ELSE [S EXCEPT !.subInfo[i][k] =
                             [present |-> TRUE, callbacks |-> <<w>>,
                              errCallbacks |-> <<w>>, timeouts |-> {},
                              decode |-> dec],
                           !.subq[i] = Append(@, [op |-> "sub", k |-> k, w |-> w])]
  IN [S1 EXCEPT !.subInfo[i][k].timeouts = @ \cup {w},
                !.timers = @ \cup {ArmTimer(S, w, k, timeoutMs)}]

\* unsubscribeFromSubscribeOnce that sends no UNSUBSCRIBE for the last waiter.
unsubscribeFromSubscribeOnce_NoUnsub(S, w) ==
  LET i == InstOf(S, w)
      k == KeyOf(S, w)
      info == S.subInfo[i][k]
      cbs == Without(info.callbacks, w)
  IN IF ~info.present THEN S
     ELSE IF Len(cbs) = 0
     THEN [S EXCEPT !.subInfo[i][k] = NoEntry]
     ELSE [S EXCEPT !.subInfo[i][k].callbacks = cbs,
                    !.subInfo[i][k].errCallbacks = Without(info.errCallbacks, w)]

\* unsubscribeFromSubscribeOnce that gives up the whole entry for one waiter.
unsubscribeFromSubscribeOnce_DropsEntry(S, w) ==
  LET i == InstOf(S, w)
      k == KeyOf(S, w)
  IN IF ~S.subInfo[i][k].present THEN S
     ELSE [S EXCEPT !.subInfo[i][k] = NoEntry,
                    !.subq[i] = Append(@, [op |-> "unsub", k |-> k, w |-> w])]

unsubscribeFromSubscribeOnce(S, w) ==
  LET i == InstOf(S, w)
      k == KeyOf(S, w)
      info == S.subInfo[i][k]
      cbs == Without(info.callbacks, w)
  IN IF ~info.present THEN S
     ELSE IF Len(cbs) = 0
     THEN [S EXCEPT !.subInfo[i][k] = NoEntry,
                    !.subq[i] = Append(@, [op |-> "unsub", k |-> k, w |-> w])]
     ELSE [S EXCEPT !.subInfo[i][k].callbacks = cbs,
                    !.subInfo[i][k].errCallbacks = Without(info.errCallbacks, w)]

(***************************************************************************)
(* MemolockCache (index.ts).                                               *)
(***************************************************************************)
\* getLockOrWaitForLock, the branch taken when isLocked answers true.
waitForLock(S, c) ==
  LET i == S.calls[c].inst
      k == S.calls[c].key
      o == S.calls[c].opt
      S1 == [S EXCEPT !.isLockedCache[i] = @ \cup {k}, !.calls[c].pc = "waiting"]
  IN subscribeOnce(S1, <<c, S.calls[c].att>>, o.lockTimeout, o.decode)

\* getLockOrWaitForLock of an isLocked that does not look at isLockedCache.
getLockOrWaitForLock_NoLocalCheck(S, c) ==
  [S EXCEPT !.isLockedCache[S.calls[c].inst] = @ \cup {S.calls[c].key},
            !.cmdq[S.calls[c].inst] =
              Append(@, Cmd("SETNX", c, S.calls[c].key, "locked",
                            S.calls[c].opt.lockTimeout)),
            !.calls[c].pc = "setnx"]

\* isLocked up to its await, and getLockOrWaitForLock when it answers at once.
getLockOrWaitForLock(S, c) ==
  LET i == S.calls[c].inst
      k == S.calls[c].key
      o == S.calls[c].opt
  IN IF k \in S.isLockedCache[i]
     THEN waitForLock(S, c)
     ELSE [S EXCEPT !.isLockedCache[i] = @ \cup {k},
                    !.cmdq[i] = Append(@, Cmd("SETNX", c, k, "locked", o.lockTimeout)),
                    !.calls[c].pc = "setnx"]

\* get that reads the stored value also with forceRefresh.
get_ReadsCache(S, c, attempts) ==
  [S EXCEPT !.calls[c].att = attempts, !.calls[c].pc = "get",
            !.cmdq[S.calls[c].inst] = Append(@, Cmd("GET", c, S.calls[c].key, "", 0))]

\* get(key, opt, fetch, attempts) up to its first await.  With forceRefresh
\* the await is of null: the rest runs as a microtask ("micro").
get(S, c, attempts) ==
  LET i == S.calls[c].inst
      k == S.calls[c].key
      S1 == [S EXCEPT !.calls[c].att = attempts]
  IN IF S.calls[c].opt.forceRefresh
     THEN [S1 EXCEPT !.calls[c].pc = "micro"]
     ELSE [S1 EXCEPT !.calls[c].pc = "get",
                     !.cmdq[i] = Append(@, Cmd("GET", c, k, "", 0))]

RECURSIVE RunMicrotasks(_, _)
RunMicrotasks(S, cs) ==
  IF cs = <<>> THEN S
  ELSE LET c == Head(cs)
       IN RunMicrotasks(IF S.calls[c].pc = "micro"
                        THEN getLockOrWaitForLock(S, c) ELSE S,
                        Tail(cs))

\* onSuccess that leaves key in isLockedCache.
onSuccess_KeepsMarker(S, w, data) ==
  resolve([S EXCEPT !.fired[w].s = Bump(@)], w[1], data)

\* The onSuccess closure of getLockOrWaitForLock.
onSuccess(S, w, data) ==
  LET c == w[1]
      S1 == [S EXCEPT !.isLockedCache[InstOf(S, w)] = @ \ {KeyOf(S, w)},
                      !.fired[w].s = Bump(@)]
  IN resolve(S1, c, data)

\* onErrorUnsafe of a waiter that steals the lock when its wait fails.
onErrorUnsafe_Steals(S, w) ==
  LET c == w[1]
      i == InstOf(S, w)
      S1 == [S EXCEPT !.isLockedCache[i] = @ \ {KeyOf(S, w)},
                      !.fired[w].e = Bump(@),
                      !.cmdq[i] = Append(@, Cmd("DEL", c, KeyOf(S, w), "", 0))]
  IN IF w[2] < maxAttemptsOf(S.calls[c].opt) - 1
     THEN get(S1, c, w[2] + 1)
     ELSE reject(S1, c, NeverUnlocked)

\* onErrorUnsafe that compares attempts with maxAttempts, not maxAttempts - 1.
onErrorUnsafe_OneMore(S, w) ==
  LET c == w[1]
      S1 == [S EXCEPT !.isLockedCache[InstOf(S, w)] = @ \ {KeyOf(S, w)},
                      !.fired[w].e = Bump(@)]
  IN IF w[2] < maxAttemptsOf(S.calls[c].opt)
     THEN get(S1, c, w[2] + 1)
     ELSE reject(S1, c, NeverUnlocked)

\* onErrorUnsafe that goes for the lock again without reading the cache.
onErrorUnsafe_SkipsRead(S, w) ==
  LET c == w[1]
      S1 == [S EXCEPT !.isLockedCache[InstOf(S, w)] = @ \ {KeyOf(S, w)},
                      !.fired[w].e = Bump(@)]
  IN IF w[2] < maxAttemptsOf(S.calls[c].opt) - 1
     THEN getLockOrWaitForLock([S1 EXCEPT !.calls[c].att = w[2] + 1], c)
     ELSE reject(S1, c, NeverUnlocked)

\* The onError closure of getLockOrWaitForLock (onError_UNSAFE).
onErrorUnsafe(S, w) ==
  LET c == w[1]
      attempts == w[2]
      S1 == [S EXCEPT !.isLockedCache[InstOf(S, w)] = @ \ {KeyOf(S, w)},
                      !.fired[w].e = Bump(@)]
  IN IF attempts < maxAttemptsOf(S.calls[c].opt) - 1
     THEN get(S1, c, attempts + 1)
     ELSE reject(S1, c, NeverUnlocked)

\* The callbacks of a caller that uses subscribeOnce itself: they note the
\* outcome; for cb = "throws" they throw, and for cb = "resub" the callbacks
\* of the caller's first subscription call subscribeOnce again on the
\* channel, once.
Resubscribes(S, w) ==
  S.calls[w[1]].cb = "resub" /\ w[2] = 0 /\ S.calls[w[1]].att = 0

resubscribe(S, w) ==
  subscribeOnce([S EXCEPT !.calls[w[1]].att = w[2] + 1], <<w[1], w[2] + 1>>,
                DefaultOpt.lockTimeout, S.calls[w[1]].opt.decode)

userOnSuccess(S, w, data) ==
  IF Resubscribes(S, w) THEN resubscribe([S EXCEPT !.fired[w].s = Bump(@)], w)
  ELSE resolve([S EXCEPT !.fired[w].s = Bump(@)], w[1], data)

userOnError(S, w) ==
  IF Resubscribes(S, w) THEN resubscribe([S EXCEPT !.fired[w].e = Bump(@)], w)
  ELSE reject([S EXCEPT !.fired[w].e = Bump(@)], w[1], WaitError)
Throws(S, w) == S.calls[w[1]].cb = "throws"

\* The callbacks a waiter was registered with (SubSuccess, SubError).
SubSuccess(S, w, data) ==
  IF S.calls[w[1]].cb = "memolock" THEN onSuccess(S, w, data)
  ELSE userOnSuccess(S, w, data)

SubError(S, w) ==
  IF S.calls[w[1]].cb = "memolock" THEN onErrorUnsafe(S, w) ELSE userOnError(S, w)

\* The single-fire wrapper subscribeOnce puts around onError.
onError(S, w) ==
  IF w \in S.hadCallback THEN S
  ELSE SubError([S EXCEPT !.hadCallback = @ \cup {w}], w)

\* Whether calling the wrapper of waiter w in state S ends in an exception.
onErrorThrows(S, w) == w \notin S.hadCallback /\ Throws(S, w)

Err(src, w) == [src |-> src, w |-> w]

\* safeCall: an exception of fn goes to errorHandler.
safeCall(T, threw, w) ==
  IF threw THEN [T EXCEPT !.errorHandler = @ \cup {Err("callback", w)}] ELSE T

RECURSIVE EachSuccess(_, _, _)
EachSuccess(S, ws, data) ==
  IF ws = <<>> THEN S
  ELSE EachSuccess(safeCall(SubSuccess(S, Head(ws), data), Throws(S, Head(ws)),
                            Head(ws)),
                   Tail(ws), data)

RECURSIVE EachError(_, _)
EachError(S, ws) ==
  IF ws = <<>> THEN S
  ELSE EachError(safeCall(onError(S, Head(ws)), onErrorThrows(S, Head(ws)),
                          Head(ws)),
                 Tail(ws))

CallsOf(ws) == [n \in 1..Len(ws) |-> ws[n][1]]

\* A 'message' handler that leaves the timers armed when decode throws.
onMessage_KeepsTimersOnError(S, i, k, message) ==
  LET info == S.subInfo[i][k]
      S1 == [S EXCEPT !.subInfo[i][k] = NoEntry]
      unsub(T) ==
        [T EXCEPT !.subq[i] = Append(@, [op |-> "unsub", k |-> k, w |-> <<0, 0>>])]
      cleared(T) == [unsub(T) EXCEPT !.timers = {t \in @ : t.w \notin info.timeouts}]
  IN IF ~info.present THEN S
     ELSE IF decodeThrows(info.decode, message)
     THEN RunMicrotasks(unsub(EachError(S1, info.errCallbacks)),
                        CallsOf(info.errCallbacks))
     ELSE cleared(EachSuccess(S1, info.callbacks, decode(info.decode, message)))

\* A 'message' handler that deletes subInfo[channel] after the callbacks.
onMessage_DeletesAfter(S, i, k, message) ==
  LET info == S.subInfo[i][k]
      cleared(T) ==
        [T EXCEPT !.subInfo[i][k] = NoEntry,
                  !.timers = {t \in @ : t.w \notin info.timeouts},
                  !.subq[i] = Append(@, [op |-> "unsub", k |-> k, w |-> <<0, 0>>])]
  IN IF ~info.present THEN S
     ELSE IF decodeThrows(info.decode, message)
     THEN RunMicrotasks(cleared(EachError(S, info.errCallbacks)),
                        CallsOf(info.errCallbacks))
     ELSE cleared(EachSuccess(S, info.callbacks, decode(info.decode, message)))

\* The 'message' handler RedisUtilService installs on the subscription client.
onMessage(S, i, k, message) ==
  LET info == S.subInfo[i][k]
      S1 == [S EXCEPT !.subInfo[i][k] = NoEntry]
      cleared(T) ==
        [T EXCEPT !.timers = {t \in @ : t.w \notin info.timeouts},
                  !.subq[i] = Append(@, [op |-> "unsub", k |-> k, w |-> <<0, 0>>])]
  IN IF ~info.present THEN S
     ELSE IF decodeThrows(info.decode, message)
     THEN LET S2 == [S1 EXCEPT !.undecoded =
                                 @ \cup {w[1] : w \in {info.errCallbacks[n] :
                                                        n \in 1..Len(info.errCallbacks)}}]
          IN RunMicrotasks(cleared(EachError(S2, info.errCallbacks)),
                           CallsOf(info.errCallbacks))
     ELSE cleared(EachSuccess(S1, info.callbacks, decode(info.decode, message)))

(***************************************************************************)
(* The steps of the system.                                                *)
(***************************************************************************)
Started == {c \in Calls : calls[c].pc # "idle"}
UsedInsts == {calls[c].inst : c \in Started}
UsedKeys == {calls[c].key : c \in Started}

\* A caller invokes get(key, opt, fetch).  Calls start in the order of their
\* numbers, and instances and keys are taken into use in the order of theirs.
StartGet(c, i, k, o) ==
  /\ calls[c].pc = "idle"
  /\ \A d \in Calls : d < c => calls[d].pc # "idle"
  /\ \A j \in Insts : j < i => j \in UsedInsts
  /\ \A j \in Keys : j < k => j \in UsedKeys
  /\ LET S1 == [Cur EXCEPT !.calls[c].inst = i, !.calls[c].key = k,
                           !.calls[c].opt = o,
                           !.calls[c].alone =
                             \A d \in Calls : calls[d].pc \in {"idle", "done"}]
     IN Commit(RunMicrotasks(get(S1, c, 0), <<c>>))

HeadIs(i, op) == cmdq[i] # <<>> /\ Head(cmdq[i]).op = op
Popped(i) == [Cur EXCEPT !.cmdq[i] = Tail(@)]

\* Redis executes GET key; get() continues after its await.
ServeGet(i) ==
  /\ HeadIs(i, "GET")
  /\ LET m == Head(cmdq[i])
         c == m.c
         value == RedisGet(Cur, m.k)
         o == calls[c].opt
     IN Commit(IF Truthy(value)
               THEN IF decodeThrows(o.decode, value)
                    THEN reject(Popped(i), c, DecodeError)
                    ELSE resolve(Popped(i), c, decode(o.decode, value))
               ELSE getLockOrWaitForLock(Popped(i), c))

\* ServeSetNx with the SET sent without NX: it overwrites a sentinel.
ServeSetNx_NoNX(i) ==
  /\ cmdq[i] # <<>> /\ Head(cmdq[i]).op = "SETNX"
  /\ LET m == Head(cmdq[i])
     IN Commit([Cur EXCEPT
                  !.cmdq[i] = Tail(@),
                  !.lock[m.k] = [id |-> count[m.k] + 1, owner |-> m.c, ttl |-> m.ttl],
                  !.count[m.k] = @ + 1,
                  !.calls[m.c].pc = "fetching",
                  !.calls[m.c].fv = count[m.k],
                  !.calls[m.c].nfetch = @ + 1])

\* ServeSetNx of an isLocked that answers false whatever the reply was.
ServeSetNx_IgnoresReply(i) ==
  /\ HeadIs(i, "SETNX")
  /\ LET m == Head(cmdq[i])
         c == m.c
         k == m.k
         S1 == [Popped(i) EXCEPT !.count[k] = @ + 1,
                                 !.calls[c].pc = "fetching",
                                 !.calls[c].fv = count[k],
                                 !.calls[c].nfetch = @ + 1]
     IN Commit(IF lock[k].id = 0
               THEN [S1 EXCEPT !.lock[k] = [id |-> count[k] + 1, owner |-> c,
                                            ttl |-> m.ttl]]
               ELSE S1)

\* Redis executes SET key:lock locked PX lockTimeout NX; isLocked and
\* getLockOrWaitForLock continue: the caller invokes fetch, or waits.
ServeSetNx(i) ==
  /\ HeadIs(i, "SETNX")
  /\ LET m == Head(cmdq[i])
         c == m.c
         k == m.k
     IN Commit(IF RedisFree(Cur, k)
               THEN [Popped(i) EXCEPT
                       !.lock[k] = [id |-> count[k] + 1, owner |-> c, ttl |-> m.ttl],
                       !.count[k] = @ + 1,
                       !.calls[c].pc = "fetching",
                       !.calls[c].fv = count[k],
                       !.calls[c].nfetch = @ + 1]
               ELSE waitForLock(Popped(i), c))

\* FetchOk that stores the value whatever cacheIf answers.
FetchOk_AlwaysCaches(c) ==
  /\ calls[c].pc = "fetching"
  /\ LET i == calls[c].inst
         k == calls[c].key
         o == calls[c].opt
         encodedValue == getEncodedData(Num(calls[c].fv), o)
     IN Commit([Cur EXCEPT !.cmdq[i] = @ \o <<Cmd("PSET", c, k, encodedValue, o.ttlMs),
                                               Cmd("PUBLISH", c, k, encodedValue, 0),
                                               Cmd("PDEL", c, k, "", 0)>>,
                           !.calls[c].pc = "pipeline"])

\* FetchOk of a pipeline built as publish, set, del.
FetchOk_PublishFirst(c) ==
  /\ calls[c].pc = "fetching"
  /\ LET i == calls[c].inst
         k == calls[c].key
         o == calls[c].opt
         encodedValue == getEncodedData(Num(calls[c].fv), o)
     IN Commit([Cur EXCEPT !.cmdq[i] = @ \o <<Cmd("PUBLISH", c, k, encodedValue, 0),
                                               Cmd("PSET", c, k, encodedValue, o.ttlMs),
                                               Cmd("PDEL", c, k, "", 0)>>,
                           !.calls[c].pc = "pipeline"])

\* FetchOk of a pipeline that publishes before and after the set.
FetchOk_PublishesTwice(c) ==
  /\ calls[c].pc = "fetching"
  /\ LET i == calls[c].inst
         k == calls[c].key
         o == calls[c].opt
         encodedValue == getEncodedData(Num(calls[c].fv), o)
     IN Commit([Cur EXCEPT !.cmdq[i] = @ \o <<Cmd("PUBLISH", c, k, encodedValue, 0),
                                               Cmd("PSET", c, k, encodedValue, o.ttlMs),
                                               Cmd("PUBLISH", c, k, encodedValue, 0),
                                               Cmd("PDEL", c, k, "", 0)>>,
                           !.calls[c].pc = "pipeline"])

\* fetch() settles with a value: the pipeline is issued.
FetchOk(c) ==
  /\ calls[c].pc = "fetching"
  /\ LET i == calls[c].inst
         k == calls[c].key
         o == calls[c].opt
         value == FetchValue(Cur, c)
         encodedValue == getEncodedData(value, o)
         shouldCache == o.cacheIf
         batch == (IF shouldCache THEN <<Cmd("PSET", c, k, encodedValue, o.ttlMs)>>
                   ELSE <<>>)
                  \o <<Cmd("PUBLISH", c, k, encodedValue, 0), Cmd("PDEL", c, k, "", 0)>>
     IN Commit([Cur EXCEPT !.cmdq[i] = @ \o batch, !.calls[c].pc = "pipeline"])

\* FetchFail of a catch that does not send DEL key:lock.
FetchFail_NoDel(c) ==
  /\ calls[c].pc = "fetching"
  /\ LET S1 == [Cur EXCEPT !.isLockedCache[calls[c].inst] = @ \ {calls[c].key}]
     IN Commit(reject(S1, c, FetchError(calls[c].fv)))

\* FetchFail that also publishes null on key_done.
FetchFail_Publishes(c) ==
  /\ calls[c].pc = "fetching"
  /\ LET i == calls[c].inst
         k == calls[c].key
         S1 == [Cur EXCEPT !.cmdq[i] = @ \o <<Cmd("DEL", c, k, "", 0),
                                              Cmd("PUBLISH", c, k, "null", 0)>>,
                           !.isLockedCache[i] = @ \ {k}]
     IN Commit(reject(S1, c, FetchError(calls[c].fv)))

\* FetchFail of a fetcher that starts its Get over when fetch fails.
FetchFail_Retries(c) ==
  /\ calls[c].pc = "fetching"
  /\ LET i == calls[c].inst
         k == calls[c].key
         S1 == [Cur EXCEPT !.cmdq[i] = Append(@, Cmd("DEL", c, k, "", 0)),
                           !.isLockedCache[i] = @ \ {k}]
     IN Commit(RunMicrotasks(get(S1, c, calls[c].att), <<c>>))

\* FetchFail of a catch that leaves key in isLockedCache.
FetchFail_KeepsMarker(c) ==
  /\ calls[c].pc = "fetching"
  /\ LET S1 == [Cur EXCEPT !.cmdq[calls[c].inst] =
                             Append(@, Cmd("DEL", c, calls[c].key, "", 0))]
     IN Commit(reject(S1, c, FetchError(calls[c].fv)))

\* fetch() throws or rejects.
FetchFail(c) ==
  /\ calls[c].pc = "fetching"
  /\ LET i == calls[c].inst
         k == calls[c].key
         S1 == [Cur EXCEPT !.cmdq[i] = Append(@, Cmd("DEL", c, k, "", 0)),
                           !.isLockedCache[i] = @ \ {k}]
     IN Commit(reject(S1, c, FetchError(calls[c].fv)))

\* ServePipeSet of a store that takes PX 0 for "no expiry".
ServePipeSet_KeepsForZero(i) ==
  /\ HeadIs(i, "PSET")
  /\ Commit([Popped(i) EXCEPT !.val[Head(cmdq[i]).k] = Head(cmdq[i]).s])

\* Redis executes the pipeline's SET key value PX ttlMs (an error for ttlMs 0).
ServePipeSet(i) ==
  /\ HeadIs(i, "PSET")
  /\ LET m == Head(cmdq[i])
     IN Commit(IF m.ttl > 0 THEN RedisSet(Popped(i), m.k, m.s) ELSE Popped(i))

\* Redis executes PUBLISH key_done value: one message per subscribed client.
ServePublish(i) ==
  /\ HeadIs(i, "PUBLISH")
  /\ LET m == Head(cmdq[i])
     IN Commit([Popped(i) EXCEPT
                  !.msgs = [j \in Insts |->
                              IF m.k \in subs[j]
                              THEN Append(msgs[j], [k |-> m.k, s |-> m.s])
                              ELSE msgs[j]]])

\* ServePipeDel of a pipeline without its DEL: the sentinel stays.
ServePipeDel_KeepsLock(i) ==
  /\ HeadIs(i, "PDEL")
  /\ LET m == Head(cmdq[i])
         S1 == [Popped(i) EXCEPT !.isLockedCache[i] = @ \ {m.k}]
     IN Commit(resolve(S1, m.c, Num(calls[m.c].fv)))

\* ServePipeDel of a DEL that removes the sentinels of all keys.
ServePipeDel_AllLocks(i) ==
  /\ HeadIs(i, "PDEL")
  /\ LET m == Head(cmdq[i])
         S1 == [Popped(i) EXCEPT !.lock = [k \in Keys |-> NoLock],
                                 !.isLockedCache[i] = @ \ {m.k}]
     IN Commit(resolve(S1, m.c, Num(calls[m.c].fv)))

\* ServePipeDel of a fetcher that returns what a reader of the key would get.
ServePipeDel_RoundTrip(i) ==
  /\ HeadIs(i, "PDEL")
  /\ LET m == Head(cmdq[i])
         o == calls[m.c].opt
         S1 == [RedisDelLock(Popped(i), m.k) EXCEPT !.isLockedCache[i] = @ \ {m.k}]
     IN Commit(resolve(S1, m.c,
                       decode(o.decode, getEncodedData(FetchValue(Cur, m.c), o))))

\* Redis executes the pipeline's DEL key:lock; exec() resolves and the
\* fetcher returns its value.
ServePipeDel(i) ==
  /\ HeadIs(i, "PDEL")
  /\ LET m == Head(cmdq[i])
         c == m.c
         S1 == [RedisDelLock(Popped(i), m.k) EXCEPT !.isLockedCache[i] = @ \ {m.k}]
     IN Commit(resolve(S1, c, FetchValue(Cur, c)))

\* Redis executes the DEL key:lock issued after a failed fetch.
ServeDel(i) ==
  /\ HeadIs(i, "DEL")
  /\ Commit(RedisDelLock(Popped(i), Head(cmdq[i]).k))

\* Redis executes SUBSCRIBE / UNSUBSCRIBE of a subscription client.
ServeSubscribe(i) ==
  /\ subq[i] # <<>>
  /\ Head(subq[i]).op = "sub"
  /\ Commit([Cur EXCEPT !.subq[i] = Tail(@), !.subs[i] = @ \cup {Head(subq[i]).k}])

ServeUnsubscribe(i) ==
  /\ subq[i] # <<>>
  /\ Head(subq[i]).op = "unsub"
  /\ Commit([Cur EXCEPT !.subq[i] = Tail(@), !.subs[i] = @ \ {Head(subq[i]).k}])

\* SubscribeFail of a catch that reports the failure to every waiter of the
\* entry.
SubscribeFail_TellsAll(i) ==
  /\ subq[i] # <<>>
  /\ Head(subq[i]).op = "sub"
  /\ LET w == Head(subq[i]).w
         S1 == [Cur EXCEPT !.subq[i] = Tail(@)]
         S2 == EachError(onError(S1, w), S1.subInfo[i][Head(subq[i]).k].errCallbacks)
     IN Commit(unsubscribeFromSubscribeOnce(S2, w))

\* The SUBSCRIBE of a subscription client fails (the connection is lost before
\* the reply): the catch of subscribeOnce runs for the waiter that sent it.
SubscribeFail(i) ==
  /\ subq[i] # <<>>
  /\ Head(subq[i]).op = "sub"
  /\ LET w == Head(subq[i]).w
         S1 == [Cur EXCEPT !.subq[i] = Tail(@)]
         S2 == IF onErrorThrows(S1, w)
               THEN [onError(S1, w) EXCEPT !.uncaught = @ \cup {Err("subscribe", w)}]
               ELSE unsubscribeFromSubscribeOnce(onError(S1, w), w)
     IN Commit(RunMicrotasks(S2, <<w[1]>>))

\* A message reaches the subscription client of instance i.
Deliver(i) ==
  /\ msgs[i] # <<>>
  /\ LET m == Head(msgs[i])
     IN Commit(onMessage([Cur EXCEPT !.msgs[i] = Tail(@)], i, m.k, m.s))

\* The timer subscribeOnce armed for a waiter fires.
TimerFire(t) ==
  /\ t \in timers
  /\ t.blk = 0 \/ lock[calls[t.w[1]].key].id # t.blk
  /\ LET S1 == unsubscribeFromSubscribeOnce([Cur EXCEPT !.timers = @ \ {t}], t.w)
         S2 == IF onErrorThrows(S1, t.w)
               THEN [onError(S1, t.w) EXCEPT !.uncaught = @ \cup {Err("timer", t.w)}]
               ELSE onError(S1, t.w)
     IN Commit(RunMicrotasks(S2, <<t.w[1]>>))

\* The TTL of the sentinel at key:lock runs out.
LockExpire(k) ==
  /\ lock[k].id # 0
  /\ Commit([Cur EXCEPT !.lock[k] = NoLock, !.expired = @ \cup {k},
                        !.lapsed = IF calls[lock[k].owner].pc = "fetching"
                                   THEN @ \cup {k} ELSE @])

\* The TTL of the value at key runs out.
ValueExpire(k) ==
  /\ val[k] # Nil
  /\ Commit([Cur EXCEPT !.val[k] = Nil])

\* set(key, data, opt): after getTtlMs, SET key encoded PX ttlMs is sent.
set(S, i, k, data, o) ==
  [S EXCEPT !.setOp = [pc |-> "sent", inst |-> i, key |-> k, data |-> data,
                       opt |-> o,
                       before |-> Cardinality({c \in Calls : S.calls[c].pc # "idle"}),
                       during |-> {c \in Calls : /\ S.calls[c].pc = "fetching"
                                                 /\ S.calls[c].key = k},
                       later |-> {}],
            !.cmdq[i] = Append(@, Cmd("SET", 0, k, getEncodedData(data, o), o.ttlMs))]

\* The Gets whose fetch on key k is in flight.
InFlight(k) == {c \in Calls : calls[c].pc = "fetching" /\ calls[c].key = k}

\* The Gets whose pipeline SET on key k Redis has not executed yet.
PendingSet(k) ==
  {c \in Calls : \E i \in Insts : \E n \in 1..Len(cmdq[i]) :
     cmdq[i][n].op = "PSET" /\ cmdq[i][n].c = c /\ cmdq[i][n].k = k}

\* ServeSet of a set that leaves the key alone while its sentinel exists.
ServeSet_HonoursLock(i) ==
  /\ HeadIs(i, "SET")
  /\ LET m == Head(cmdq[i])
         later == InFlight(m.k) \cup PendingSet(m.k)
     IN Commit(IF m.ttl > 0
               THEN IF lock[m.k] = NoLock
                    THEN [Popped(i) EXCEPT !.val[m.k] = m.s, !.setOp.pc = "done",
                                           !.setOp.later = later]
                    ELSE [Popped(i) EXCEPT !.setOp.pc = "done",
                                           !.setOp.later = later]
               ELSE [Popped(i) EXCEPT !.setOp.pc = "failed"])

\* Redis executes the SET of set(): an error reply for ttlMs 0.
ServeSet(i) ==
  /\ HeadIs(i, "SET")
  /\ LET m == Head(cmdq[i])
     IN Commit(IF m.ttl > 0
               THEN [RedisSet(Popped(i), m.k, m.s) EXCEPT
                       !.setOp.pc = "done",
                       !.setOp.later = InFlight(m.k) \cup PendingSet(m.k)]
               ELSE [Popped(i) EXCEPT !.setOp.pc = "failed"])

\* delete(key): DEL key is sent.
delete(S, i, k) ==
  [S EXCEPT !.delOp = [pc |-> "sent", inst |-> i, key |-> k,
                       before |-> Cardinality({c \in Calls : S.calls[c].pc # "idle"}),
                       afterSet |-> S.setOp.pc # "idle", during |-> {}],
            !.cmdq[i] = Append(@, Cmd("DELKEY", 0, k, "", 0))]

\* ServeDelete of a store in which DEL leaves the key.
ServeDelete_KeepsKey(i) ==
  /\ HeadIs(i, "DELKEY")
  /\ Commit([Popped(i) EXCEPT !.delOp.pc = "done",
                              !.delOp.during = InFlight(Head(cmdq[i]).k)])

\* ServeDelete of a delete that also removes the sentinel key:lock.
ServeDelete_DropsLock(i) ==
  /\ HeadIs(i, "DELKEY")
  /\ Commit([Popped(i) EXCEPT !.val[Head(cmdq[i]).k] = Nil,
                              !.lock[Head(cmdq[i]).k] = NoLock,
                              !.delOp.pc = "done",
                              !.delOp.during = InFlight(Head(cmdq[i]).k)])

\* Redis executes the DEL of delete().
ServeDelete(i) ==
  /\ HeadIs(i, "DELKEY")
  /\ Commit([RedisDel(Popped(i), Head(cmdq[i]).k) EXCEPT
                              !.delOp.pc = "done",
                              !.delOp.during = InFlight(Head(cmdq[i]).k)])

\* The Gets of a behaviour go through one client handle made by new(clientOpt,
\* fetch): they share its options.
SameClient(o) ==
  /\ \A d \in Started : calls[d].opt = o
  /\ setOp.pc # "idle" => setOp.opt = o

OptSet == {[DefaultOpt EXCEPT !.maxAttempts = a] : a \in {1, 2}}

InitWith(names) ==
  /\ calls = [c \in Calls |-> IdleCall]
  /\ val = [k \in Keys |-> Nil]
  /\ lock = [k \in Keys |-> NoLock]
  /\ subs = [i \in Insts |-> {}]
  /\ cmdq = [i \in Insts |-> <<>>]
  /\ subq = [i \in Insts |-> <<>>]
  /\ msgs = [i \in Insts |-> <<>>]
  /\ isLockedCache = [i \in Insts |-> {}]
  /\ subInfo = [i \in Insts |-> [k \in Keys |-> NoEntry]]
  /\ timers = {}
  /\ hadCallback = {}
  /\ fired = [w \in Waiters |-> [s |-> 0, e |-> 0]]
  /\ count = [k \in Keys |-> 0]
  /\ expired = {}
  /\ lapsed = {}
  /\ setOp = IdleSet
  /\ delOp = IdleDelete
  /\ undecoded = {}
  /\ errorHandler = {}
  /\ uncaught = {}
  /\ cleanupFailed = {}
  /\ keyName = names

Init == InitWith(DefaultNames)

\* Redis, the network, the timers and the user's fetch function.
System ==
  \/ \E i \in Insts : ServeGet(i)
  \/ \E i \in Insts : ServeSetNx(i)
  \/ \E c \in Calls : FetchOk(c)
  \/ \E c \in Calls : FetchFail(c)
  \/ \E i \in Insts : ServePipeSet(i)
  \/ \E i \in Insts : ServePublish(i)
  \/ \E i \in Insts : ServePipeDel(i)
  \/ \E i \in Insts : ServeDel(i)
  \/ \E i \in Insts : ServeSubscribe(i)
  \/ \E i \in Insts : ServeUnsubscribe(i)
  \/ \E i \in Insts : Deliver(i)
  \/ \E t \in timers : TimerFire(t)
  \/ \E k \in Keys : LockExpire(k)
  \/ \E k \in Keys : ValueExpire(k)

\* Gets on one key through one client handle, from any instance.
Gets(CS) ==
  \E c \in CS, i \in Insts, o \in OptSet : SameClient(o) /\ StartGet(c, i, 1, o)

Next == Gets(Calls) \/ System

Spec == Init /\ [][Next]_vars

\* Two Gets; every command is answered, every timer fires, every TTL runs
\* out and every fetch settles.
NextTwo == Gets({1, 2}) \/ System

LiveSpec == Init /\ [][NextTwo]_vars /\ WF_vars(System)

\* Two Gets, and SUBSCRIBE commands that may fail.
NextSubFail == Gets({1, 2}) \/ System \/ \E i \in Insts : SubscribeFail(i)

SpecSubFail == Init /\ [][NextSubFail]_vars

\* Gets on one key, from the instances IS, through one client handle whose
\* options are drawn from OS.
GetsWith(CS, IS, OS) ==
  \E c \in CS, i \in IS, o \in OS : SameClient(o) /\ StartGet(c, i, 1, o)

\* Gets of one instance, of a client with maxAttempts 1, 2 or the default, and
\* a decoder that works or throws.
OptRetry ==
  {[DefaultOpt EXCEPT !.maxAttempts = a, !.decode = d] :
     a \in {0, 1, 2}, d \in {"json", "throw"}}

NextRetry == GetsWith(Calls, {1}, OptRetry) \/ System

SpecRetry == Init /\ [][NextRetry]_vars

\* set and delete through the client handle, from the first instance.
SetValue == Num(MaxCalls * DEFAULT_MAX_ATTEMPTS)
SetData == {SetValue, EmptyStr}

StartSet(OS) ==
  /\ setOp.pc = "idle"
  /\ \E data \in SetData, o \in OS : SameClient(o) /\ Commit(set(Cur, 1, 1, data, o))

StartDelete ==
  /\ delOp.pc = "idle"
  /\ Commit(delete(Cur, 1, 1))

\* Two Gets, a set and a delete of a client with the JSON codec or with a
\* codec that passes strings through; maxAttempts is 1.
OptOps ==
  {[DefaultOpt EXCEPT !.maxAttempts = 1],
   [DefaultOpt EXCEPT !.maxAttempts = 1, !.encode = "raw", !.decode = "raw"]}

NextOps ==
  \/ GetsWith({1, 2}, Insts, OptOps)
  \/ System
  \/ StartSet(OptOps)
  \/ StartDelete
  \/ \E i \in Insts : ServeSet(i)
  \/ \E i \in Insts : ServeDelete(i)

SpecOps == Init /\ [][NextOps]_vars

\* Gets of a client whose cacheIf answers true, or false, for every value.
OptCacheIf == {[DefaultOpt EXCEPT !.maxAttempts = 1, !.cacheIf = b] : b \in BOOLEAN}

NextCacheIf == GetsWith(Calls, Insts, OptCacheIf) \/ System

SpecCacheIf == Init /\ [][NextCacheIf]_vars

\* Gets of one client handle, each with or without forceRefresh.
GetsRefresh(CS) ==
  \E c \in CS, i \in Insts, f \in BOOLEAN :
    LET o == [DefaultOpt EXCEPT !.maxAttempts = 1, !.forceRefresh = f]
    IN StartGet(c, i, 1, o)

NextRefresh == GetsRefresh(Calls) \/ System

SpecRefresh == Init /\ [][NextRefresh]_vars

(***************************************************************************)
(* Fetches in progress.                                                    *)
(***************************************************************************)
Fetching(c) == calls[c].pc = "fetching"
FetchersOf(k) == {c \in Calls : Fetching(c) /\ calls[c].key = k}
LocalFetchersOf(i, k) == {c \in FetchersOf(k) : calls[c].inst = i}

\* C1 as stated: over all instances, at every moment at most one invocation
\* of fetch is in progress for any key.
C1_OneFetchPerKey == \A k \in Keys : Cardinality(FetchersOf(k)) <= 1

\* C1, amended: over all instances at most one invocation of fetch is in
\* progress for a key, as long as no sentinel of that key has run out by TTL.
C1_OneFetchPerKeyUntilExpiry ==
  \A k \in Keys : k \notin expired => Cardinality(FetchersOf(k)) <= 1

\* A fetch is in progress while a caller of another instance waits for it.
C1_Witness ==
  \E c, d \in Calls :
    /\ Fetching(c) /\ calls[d].pc = "waiting"
    /\ calls[c].key = calls[d].key /\ calls[c].inst # calls[d].inst
    /\ calls[c].key \notin expired

\* C2 as stated: within one instance at most one caller is executing fetch
\* for a key, in every interleaving, lock TTL expiry included.
C2_OneLocalFetcher ==
  \A i \in Insts, k \in Keys : Cardinality(LocalFetchersOf(i, k)) <= 1

\* C2, amended: within one instance at most one caller is executing fetch for
\* a key in every interleaving of Gets, waiter timeouts and fetch failures in
\* which no sentinel of that key has run out by TTL.
C2_OneLocalFetcherUntilExpiry ==
  \A i \in Insts, k \in Keys :
    k \notin expired => Cardinality(LocalFetchersOf(i, k)) <= 1

\* A waiter of the instance of a running fetch has timed out and is trying
\* for the lock again.
C2_Witness ==
  \E c, d \in Calls :
    /\ Fetching(c) /\ calls[d].pc = "setnx" /\ calls[d].att > 0
    /\ calls[c].key = calls[d].key /\ calls[c].inst = calls[d].inst
    /\ calls[c].key \notin expired

(***************************************************************************)
(* Termination of Get.                                                     *)
(***************************************************************************)
Settled(c) == calls[c].out # "pending"

\* C3: with every fetch settling and every command answered, every Get that
\* was started settles (resolves or rejects), and no Get goes through more
\* than maxAttempts waiting phases.
C3_EveryGetSettles ==
  /\ \A c \in Calls : (calls[c].pc # "idle") ~> Settled(c)
  /\ [](\A c \in Calls : calls[c].att < maxAttemptsOf(calls[c].opt))

\* A Get has used up its maxAttempts = 2 waiting phases and rejected.
C3_Witness ==
  \E c \in Calls :
    /\ calls[c].out = "rejected" /\ calls[c].res = NeverUnlocked
    /\ calls[c].att = 1 /\ calls[c].opt.maxAttempts = 2

(***************************************************************************)
(* A burst: Gets for one uncached key started together in one instance,    *)
(* whose fetch succeeds before its sentinel runs out and whose stored      *)
(* value stays.                                                            *)
(***************************************************************************)
BurstGet(c, o) ==
  /\ \A d \in Started : calls[d].pc = "get"
  /\ SameClient(o)
  /\ StartGet(c, 1, 1, o)

LockExpireAfterFetch(k) ==
  /\ lock[k].id # 0
  /\ ~Fetching(lock[k].owner)
  /\ LockExpire(k)

NextBurst ==
  \/ \E c \in Calls, o \in OptSet : BurstGet(c, o)
  \/ ServeGet(1)
  \/ ServeSetNx(1)
  \/ \E c \in Calls : FetchOk(c)
  \/ ServePipeSet(1)
  \/ ServePublish(1)
  \/ ServePipeDel(1)
  \/ ServeSubscribe(1)
  \/ ServeUnsubscribe(1)
  \/ Deliver(1)
  \/ \E t \in timers : TimerFire(t)
  \/ LockExpireAfterFetch(1)

SpecBurst == Init /\ [][NextBurst]_vars

BurstDone == Started # {} /\ \A c \in Started : calls[c].pc = "done"
OneFetchForAll ==
  /\ count[1] = 1
  /\ \A c \in Started : calls[c].out = "resolved" /\ calls[c].res = Num(0)
NoWaitFailed == \A w \in Waiters : fired[w].e = 0

\* C4 as stated: N Gets for an uncached key started together in one instance,
\* a fetch that succeeds before its sentinel expires and a stored value that
\* stays: fetch is invoked once and all N Gets resolve with its value.
C4_BurstOneFetch == BurstDone => OneFetchForAll

\* C4, amended: the same, provided none of the waiting Gets times out.
C4_BurstOneFetchNoTimeout == (BurstDone /\ NoWaitFailed) => OneFetchForAll

\* Three Gets of a burst are done, two of them resolved by the published
\* message, and no wait has timed out.
C4_Witness ==
  /\ BurstDone /\ NoWaitFailed /\ Cardinality(Started) = 3
  /\ Cardinality({c \in Started : fired[<<c, 0>>].s = 1}) = 2

(***************************************************************************)
(* The callbacks of a SubscribeOnce waiter.                                *)
(***************************************************************************)
Invocations(w) == fired[w].s + fired[w].e
CurrentWaiter(c) == <<c, calls[c].att>>

\* C5: of the two callbacks of a waiter exactly one is invoked, and once,
\* whatever the order of message, decode failure, subscribe failure and
\* timer: never more than one invocation in total, and none while the Get
\* still waits on that waiter.
C5_ExactlyOneCallback ==
  /\ \A w \in Waiters : Invocations(w) <= 1
  /\ \A c \in Calls : calls[c].pc = "waiting" => Invocations(CurrentWaiter(c)) = 0

(***************************************************************************)
(* A fetch that fails.                                                     *)
(***************************************************************************)
FetchFails(c) == calls[c].pc = "fetching" /\ calls'[c].pc = "done"
FailedFetch(c) ==
  /\ calls[c].nfetch > 0 /\ calls[c].out = "rejected"
  /\ calls[c].res = FetchError(calls[c].fv)
WritesIn(Q, c) ==
  \E i \in Insts : \E n \in 1..Len(Q[i]) :
    Q[i][n].c = c /\ Q[i][n].op \in {"PSET", "PUBLISH"}
ValueOf(c) == getEncodedData(Num(calls[c].fv), calls[c].opt)

\* C6: when the fetch of the caller holding the lock fails, that caller's Get
\* rejects with the error fetch threw, and nothing of that fetch is written to
\* key or published on key_done, at that step or later.
C6_FetchFailureSurfaces ==
  /\ [][\A c \in Calls :
          FetchFails(c) =>
            /\ calls'[c].out = "rejected"
            /\ calls'[c].res = FetchError(calls[c].fv)
            /\ val' = val /\ msgs' = msgs
            /\ ~WritesIn(cmdq', c)]_vars
  /\ [](\A c \in Calls :
          FailedFetch(c) =>
            /\ ~WritesIn(cmdq, c)
            /\ val[calls[c].key] # ValueOf(c)
            /\ \A i \in Insts : \A n \in 1..Len(msgs[i]) : msgs[i][n].s # ValueOf(c))

\* A fetch has failed and its Get rejected while a Get of another instance
\* waits for the key.
C6_Witness ==
  \E c, d \in Calls :
    /\ FailedFetch(c) /\ calls[d].pc = "waiting"
    /\ calls[d].key = calls[c].key /\ calls[d].inst # calls[c].inst

(***************************************************************************)
(* A Get that follows a finished fetch: no other Get is in flight when it  *)
(* is invoked nor when its GET is answered, with a miss.                   *)
(***************************************************************************)
Active(c) == calls[c].pc \notin {"idle", "done"}
Alone(c) == \A d \in Calls \ {c} : ~Active(d)
FollowingGet(c) ==
  /\ calls[c].pc = "get" /\ calls[c].att = 0 /\ calls[c].alone /\ Alone(c)
  /\ calls'[c].pc \in {"setnx", "waiting"}
LastFetch(d, k) ==
  calls[d].key = k /\ calls[d].nfetch > 0 /\ calls[d].fv = count[k] - 1
FetchedOk(d) ==
  calls[d].pc = "done" /\ calls[d].nfetch > 0 /\ calls[d].out = "resolved"
PipelineCompletes(c) == calls[c].pc = "pipeline" /\ calls'[c].pc = "done"
Acquires(c) ==
  /\ calls[c].pc = "setnx" /\ calls'[c].pc # "setnx"
  /\ lock[calls[c].key].id = 0

\* C7: when a successful fetch completes its pipeline the sentinel at
\* key:lock is absent; a following Get on the key that misses the value goes
\* for the lock, finds no sentinel, and acquires it and fetches at once.
C7_LockReleasedOnSuccess ==
  [][/\ \A c \in Calls : PipelineCompletes(c) => lock'[calls[c].key].id = 0
     /\ \A c \in Calls :
          (FollowingGet(c) /\ \E d \in Calls : LastFetch(d, calls[c].key) /\ FetchedOk(d))
            => calls'[c].pc = "setnx" /\ lock[calls[c].key].id = 0
     /\ \A c \in Calls :
          Acquires(c) => calls'[c].pc = "fetching" /\ calls'[c].nfetch = calls[c].nfetch + 1
    ]_vars

\* After a fetch that succeeded and a value that ran out, a following Get is
\* fetching at its first attempt.
C7_Witness ==
  \E c, d \in Calls :
    /\ FetchedOk(d) /\ Fetching(c) /\ calls[c].alone /\ Alone(c) /\ calls[c].att = 0
    /\ calls[c].key = calls[d].key /\ calls[c].fv = calls[d].fv + 1

DelQueued(i, k) ==
  \E n \in 1..Len(cmdq[i]) : cmdq[i][n].op = "DEL" /\ cmdq[i][n].k = k
DelIssued(c) ==
  /\ cmdq'[calls[c].inst] = Append(cmdq[calls[c].inst], Cmd("DEL", c, calls[c].key, "", 0))
  /\ calls[c].key \notin isLockedCache'[calls[c].inst]
GoesForFreeLock(c) ==
  /\ calls'[c].pc = "setnx"
  /\ lock[calls[c].key].id = 0 \/ DelQueued(calls[c].inst, calls[c].key)

\* C8 as stated: a fetch that fails issues DEL key:lock and removes key from
\* isLockedCache, and the next Get on the key, of whatever instance, goes for
\* the lock and finds no sentinel (or its SET NX is queued behind the DEL).
C8_LockReleasedOnFailure ==
  [][/\ \A c \in Calls : FetchFails(c) => DelIssued(c)
     /\ \A c \in Calls :
          (FollowingGet(c) /\ \E d \in Calls : LastFetch(d, calls[c].key) /\ FailedFetch(d))
            => GoesForFreeLock(c)
    ]_vars

\* C8, amended: the same for the next Get of the fetcher's own instance, and
\* for a Get of another instance once the store has executed the DEL.
C8_LockReleasedOnFailureSameInstance ==
  [][/\ \A c \in Calls : FetchFails(c) => DelIssued(c)
     /\ \A c \in Calls :
          (/\ FollowingGet(c)
           /\ \E d \in Calls :
                /\ LastFetch(d, calls[c].key) /\ FailedFetch(d)
                /\ \/ calls[d].inst = calls[c].inst
                   \/ ~DelQueued(calls[d].inst, calls[c].key))
            => GoesForFreeLock(c)
    ]_vars

\* After a fetch that failed, a following Get of the same instance is
\* fetching at its first attempt.
C8_Witness ==
  \E c, d \in Calls :
    /\ FailedFetch(d) /\ Fetching(c) /\ calls[c].alone /\ Alone(c) /\ calls[c].att = 0
    /\ calls[c].key = calls[d].key /\ calls[c].inst = calls[d].inst
    /\ calls[c].fv = calls[d].fv + 1

(***************************************************************************)
(* isLockedCache when a Get returns.                                       *)
(***************************************************************************)
Returns(c) == calls[c].out = "pending" /\ calls'[c].out # "pending"
MarkedAfter(c) == calls[c].key \in isLockedCache'[calls[c].inst]
ActiveAt(i, k) == {c \in Calls : Active(c) /\ calls[c].inst = i /\ calls[c].key = k}

WaitingAt(i, k) ==
  {c \in Calls : calls[c].pc = "waiting" /\ calls[c].inst = i /\ calls[c].key = k}
OnChannel(q, k) == SelectSeq(q, LAMBDA m : m.k = k)
Released(Q, SB, i, k) ==
  LET p == OnChannel(Q[i], k)
  IN IF p # <<>> THEN p[Len(p)].op = "unsub" ELSE k \notin SB[i]
Delivered(i) == msgs[i] # <<>> /\ msgs'[i] = Tail(msgs[i])
LastTimeout(t) ==
  /\ t \in timers /\ t \notin timers'
  /\ fired'[t.w].e > fired[t.w].e
  /\ subInfo[InstOf(Cur, t.w)][KeyOf(Cur, t.w)].callbacks = <<t.w>>

\* C10: after a message delivery on key_done, after the timeout of the last
\* waiter, and whenever no Get of the instance waits on the key, subInfo has
\* no entry for key_done and the UNSUBSCRIBE of the channel has been issued.
C10_NoSubscriptionLeak ==
  /\ [](\A i \in Insts, k \in Keys :
          WaitingAt(i, k) = {} =>
            ~subInfo[i][k].present /\ Released(subq, subs, i, k))
  /\ [][\A i \in Insts :
          Delivered(i) =>
            /\ ~subInfo'[i][Head(msgs[i]).k].present
            /\ Released(subq', subs', i, Head(msgs[i]).k)]_vars
  /\ [][\A t \in timers :
          LastTimeout(t) =>
            /\ ~subInfo'[InstOf(Cur, t.w)][KeyOf(Cur, t.w)].present
            /\ Released(subq', subs', InstOf(Cur, t.w), KeyOf(Cur, t.w))]_vars

\* One waiter was released by a message and another by its timer, every Get
\* has settled, and the subscription client has nothing left.
C10_Witness ==
  /\ \E w \in Waiters : fired[w].s = 1
  /\ \E w \in Waiters : fired[w].e = 1
  /\ \A c \in Calls : ~Active(c)
  /\ \A i \in Insts : subq[i] = <<>> /\ subs[i] = {}

(***************************************************************************)
(* Retries of a waiting Get.                                               *)
(***************************************************************************)
WaitFails(w) == fired'[w].e > fired[w].e

\* C11: a waiting Get whose wait fails restarts get with attempts + 1 while
\* attempts + 1 < maxAttempts (default 3); otherwise it rejects with 'Never
\* received message that key was unlocked.' and does not retry, so that no
\* Get reaches attempt maxAttempts.
C11_RetryUntilMaxAttempts ==
  /\ [][\A w \in Waiters :
          WaitFails(w) =>
            LET c == w[1]
            IN IF w[2] + 1 < maxAttemptsOf(calls[c].opt)
               THEN /\ calls'[c].att = w[2] + 1 /\ Active(c)'
                    /\ calls'[c].out = "pending"
               ELSE /\ calls'[c].att = w[2] /\ calls'[c].pc = "done"
                    /\ calls'[c].out = "rejected" /\ calls'[c].res = NeverUnlocked]_vars
  /\ [](\A c \in Calls : calls[c].att < maxAttemptsOf(calls[c].opt))

\* A Get with the default maxAttempts rejected at its third failed wait, and
\* so did a Get with maxAttempts = 1 at its first.
C11_Witness ==
  \E c \in Calls :
    /\ calls[c].out = "rejected" /\ calls[c].res = NeverUnlocked
    /\ calls[c].opt.maxAttempts = 0 /\ calls[c].att = DEFAULT_MAX_ATTEMPTS - 1
    /\ fired[<<c, 0>>].e = 1 /\ fired[<<c, 1>>].e = 1 /\ fired[<<c, 2>>].e = 1

(***************************************************************************)
(* A decoder that throws on the published message.                         *)
(***************************************************************************)
\* C12: every Get a waiter of which was handed a decode error rejects with
\* that decode error, whatever maxAttempts is, and the fetcher that published
\* the message resolves with the value it fetched.
C12_DecodeErrorSurfaces ==
  /\ \A c \in undecoded :
       Settled(c) => calls[c].out = "rejected" /\ calls[c].res = DecodeError
  /\ \A c \in Calls :
       (calls[c].pc = "done" /\ calls[c].nfetch > 0 /\ ~FailedFetch(c))
         => calls[c].out = "resolved" /\ calls[c].res = Num(calls[c].fv)

(***************************************************************************)
(* A Get that finds the value stored.                                      *)
(***************************************************************************)
GetAnswered(c) == calls[c].pc = "get" /\ calls'[c].pc # "get"
Stored(k) == val[k] # Nil

\* C13: a Get without forceRefresh whose GET finds a value stored at the key
\* returns decode(stored value) and does nothing else: no fetch, no SET NX,
\* no subscription, isLockedCache and subInfo unchanged.
C13_CacheHitOnly ==
  [][\A c \in Calls :
       (GetAnswered(c) /\ Stored(calls[c].key) /\ ~calls[c].opt.forceRefresh)
         => /\ calls'[c].pc = "done"
            /\ calls[c].out = "pending" =>
                 /\ calls'[c].out = "resolved"
                 /\ calls'[c].res = decode(calls[c].opt.decode, val[calls[c].key])
            /\ cmdq'[calls[c].inst] = Tail(cmdq[calls[c].inst])
            /\ UNCHANGED <<count, lock, subq, subs, isLockedCache, subInfo, timers>>
    ]_vars

(***************************************************************************)
(* cacheIf.                                                                *)
(***************************************************************************)
FetchSucceeds(c) == calls[c].pc = "fetching" /\ calls'[c].pc = "pipeline"
NoCache(c) == calls[c].pc # "idle" /\ ~calls[c].opt.cacheIf
ResolvedByMessage(w) == fired'[w].s > fired[w].s
FetchedValues == {Num(calls[d].fv) : d \in {e \in Calls : calls[e].nfetch > 0}}

\* C14: when cacheIf answers false a successful fetch sends PUBLISH of the
\* encoded value and DEL of the lock and no SET of the key; the key never
\* holds a value, waiters are resolved with a fetched value by the message,
\* and a later Get misses, finds no sentinel and goes for the lock to fetch
\* again.
C14_CacheIfFalsePublishesOnly ==
  /\ [][\A c \in Calls :
          (FetchSucceeds(c) /\ NoCache(c)) =>
            cmdq'[calls[c].inst] =
              cmdq[calls[c].inst] \o
                <<Cmd("PUBLISH", c, calls[c].key, ValueOf(c), 0),
                  Cmd("PDEL", c, calls[c].key, "", 0)>>]_vars
  /\ [](\A c \in Calls : NoCache(c) => val[calls[c].key] = Nil)
  /\ [][\A w \in Waiters :
          (ResolvedByMessage(w) /\ NoCache(w[1])) =>
            calls'[w[1]].out = "resolved" /\ calls'[w[1]].res \in FetchedValues]_vars
  /\ [][\A c \in Calls :
          (NoCache(c) /\ FollowingGet(c)
             /\ \E d \in Calls : LastFetch(d, calls[c].key) /\ FetchedOk(d))
            => calls'[c].pc = "setnx" /\ lock[calls[c].key].id = 0]_vars

\* With cacheIf false: one Get fetched, a concurrent Get was resolved by its
\* message, and a later Get is fetching again.
C14_Witness ==
  \E c, d, e \in Calls :
    /\ NoCache(c) /\ FetchedOk(d) /\ calls[e].out = "resolved"
    /\ fired[<<e, 0>>].s = 1 /\ calls[e].res = Num(calls[d].fv)
    /\ Fetching(c) /\ calls[c].alone /\ calls[c].fv = calls[d].fv + 1

(***************************************************************************)
(* forceRefresh.                                                           *)
(***************************************************************************)
Refreshing(c) == calls[c].pc # "idle" /\ calls[c].opt.forceRefresh
ReadQueued(c) ==
  \E i \in Insts : \E n \in 1..Len(cmdq[i]) :
    cmdq[i][n].op = "GET" /\ cmdq[i][n].c = c
InvokesFetch(c) == calls'[c].nfetch > calls[c].nfetch

\* C15: a Get with forceRefresh never reads the stored key; it returns from
\* its own fetch or from a message carrying a fetched value; and it invokes
\* fetch only when its SET NX found no sentinel, that is while no other caller
\* holds the lock of the key.
C15_ForceRefreshSkipsCache ==
  /\ [](\A c \in Calls : Refreshing(c) => calls[c].pc # "get" /\ ~ReadQueued(c))
  /\ [][\A c \in Calls :
          (Refreshing(c) /\ Returns(c) /\ calls'[c].out = "resolved") =>
            \/ calls[c].pc = "pipeline" /\ calls'[c].res = Num(calls[c].fv)
            \/ /\ calls[c].pc = "waiting" /\ ResolvedByMessage(CurrentWaiter(c))
               /\ calls'[c].res \in FetchedValues]_vars
  /\ [][\A c \in Calls :
          (Refreshing(c) /\ InvokesFetch(c)) =>
            /\ lock[calls[c].key].id = 0
            /\ lock'[calls[c].key].owner = c
            /\ calls[c].pc = "setnx"]_vars

\* While the key holds the value of an earlier fetch, a Get with forceRefresh
\* has fetched anew and resolved with the new value, and another Get with
\* forceRefresh was resolved by the message of that fetch.
C15_Witness ==
  \E c, d, e \in Calls :
    /\ FetchedOk(d) /\ ~calls[d].opt.forceRefresh
    /\ Refreshing(c) /\ FetchedOk(c) /\ calls[c].res = Num(calls[d].fv + 1)
    /\ Refreshing(e) /\ fired[<<e, 0>>].s = 1 /\ calls[e].res = calls[c].res

(***************************************************************************)
(* ttlMs = 0: Gets of one instance that start together with Gets still at  *)
(* their GET, or after every earlier Get has finished; every fetch         *)
(* succeeds before its sentinel runs out.                                  *)
(***************************************************************************)
OptTtlZero == {[DefaultOpt EXCEPT !.ttlMs = 0, !.maxAttempts = a] : a \in {1, 2}}

RoundGet(c, o) ==
  /\ \A d \in Started : calls[d].pc \in {"get", "done"}
  /\ SameClient(o)
  /\ StartGet(c, 1, 1, o)

NextTtlZero ==
  \/ \E c \in Calls, o \in OptTtlZero : RoundGet(c, o)
  \/ ServeGet(1)
  \/ ServeSetNx(1)
  \/ \E c \in Calls : FetchOk(c)
  \/ ServePipeSet(1)
  \/ ServePublish(1)
  \/ ServePipeDel(1)
  \/ ServeSubscribe(1)
  \/ ServeUnsubscribe(1)
  \/ Deliver(1)
  \/ \E t \in timers : TimerFire(t)
  \/ LockExpireAfterFetch(1)

SpecTtlZero == Init /\ [][NextTtlZero]_vars

AllDone == Started # {} /\ \A c \in Started : calls[c].pc = "done"
Leaders == {c \in Started : calls[c].alone}
LeaderOf(c) == CHOOSE d \in Leaders : d <= c /\ \A e \in Leaders : e <= c => e <= d
OneFetchPerRound ==
  /\ count[1] = Cardinality(Leaders)
  /\ \A c \in Started :
       /\ calls[c].out = "resolved"
       /\ calls[c].res = Num(calls[LeaderOf(c)].fv)
       /\ calls[c].nfetch = (IF c \in Leaders THEN 1 ELSE 0)

\* C16 as stated: with ttlMs = 0 nothing is ever stored at the key, every Get
\* started after the earlier Gets finished fetches again, and the Gets started
\* beside it collapse onto that fetch.
C16_TtlZeroRefetches == val[1] = Nil /\ (AllDone => OneFetchPerRound)

\* C16, amended: the same, provided no wait of a concurrent Get times out.
C16_TtlZeroRefetchesNoTimeout ==
  val[1] = Nil /\ ((AllDone /\ NoWaitFailed) => OneFetchPerRound)

\* Two Gets started together were served by one fetch, and a Get started
\* after both had finished fetched again; no wait timed out.
C16_Witness ==
  /\ AllDone /\ NoWaitFailed /\ Cardinality(Started) = 3
  /\ Leaders = {1, 3} /\ count[1] = 2 /\ fired[<<2, 0>>].s = 1

(***************************************************************************)
(* Operations of a caller that awaits each one before it starts the next.  *)
(***************************************************************************)
Quiet ==
  /\ \A c \in Calls : calls[c].pc \in {"idle", "done"}
  /\ setOp.pc # "sent" /\ delOp.pc # "sent"

NextSeq ==
  \/ Quiet /\ GetsWith(Calls, Insts, OptOps)
  \/ Quiet /\ StartSet(OptOps)
  \/ Quiet /\ StartDelete
  \/ System
  \/ \E i \in Insts : ServeSet(i)
  \/ \E i \in Insts : ServeDelete(i)

SpecSeq == Init /\ [][NextSeq]_vars

\* Call c is the Get started next after the set completed, with no delete
\* in between.
NextAfterSet(c) ==
  /\ setOp.pc = "done" /\ setOp.before = c - 1
  /\ ~(delOp.pc # "idle" /\ delOp.afterSet /\ delOp.before < c)

\* C17: after set(k, v) completed with a positive ttl and no fetch in flight,
\* the next Get(k) of the same client, answered while the key still holds a
\* value, returns decode(encode(v)) and does not invoke fetch.
C17_SetThenGet ==
  [][\A c \in Calls :
       (GetAnswered(c) /\ NextAfterSet(c) /\ Stored(calls[c].key))
         => /\ calls'[c].out = "resolved"
            /\ calls'[c].res =
                 decode(calls[c].opt.decode, getEncodedData(setOp.data, setOp.opt))
            /\ count' = count /\ lock' = lock
    ]_vars

\* Get(k); Delete(k); Get(k), each awaited, on a key that was not cached.
GetDeleteGet ==
  /\ calls[1].pc = "done" /\ calls[2].pc = "done" /\ calls[3].pc = "idle"
  /\ setOp.pc = "idle" /\ delOp.pc = "done" /\ delOp.before = 1

\* C18: in Get(k); Delete(k); Get(k) on an uncached key, with fetches that
\* succeed, the Get after the Delete invokes fetch once and returns the
\* freshly fetched value: fetch is invoked twice in all, once per Get.
C18_DeleteThenGetRefetches ==
  (GetDeleteGet /\ ~FailedFetch(1) /\ ~FailedFetch(2)) =>
    /\ count[1] = 2
    /\ calls[1].nfetch = 1 /\ calls[1].out = "resolved" /\ calls[1].res = Num(0)
    /\ calls[2].nfetch = 1 /\ calls[2].out = "resolved" /\ calls[2].res = Num(1)

\* Get; Delete; Get is over, while the value of the first Get had not run out
\* when it was deleted: the second Get returned a second fetch's value.
C18_Witness ==
  /\ GetDeleteGet /\ calls[2].res = Num(1) /\ count[1] = 2
  /\ calls[1].res = Num(0) /\ val[1] = "1"

\* The step is one of delete(key): its call (DEL is sent) or Redis executing
\* its DEL.
DeleteStep == delOp'.pc # delOp.pc

\* C19: delete(k) only sends DEL k, and executing it only removes the value
\* at k: the sentinel k:lock, isLockedCache, subInfo, the subscriptions, the
\* messages and timers and every Get stay as they were and nothing is
\* published, whether or not a fetch for k is in flight.
C19_DeleteOnlyDelsKey ==
  [][DeleteStep =>
       /\ lock' = lock /\ isLockedCache' = isLockedCache /\ subInfo' = subInfo
       /\ subs' = subs /\ subq' = subq /\ msgs' = msgs /\ timers' = timers
       /\ calls' = calls /\ count' = count /\ hadCallback' = hadCallback
       /\ \A j \in Insts \ {delOp'.inst} : cmdq'[j] = cmdq[j]
       /\ IF delOp.pc = "idle"
          THEN /\ val' = val
               /\ cmdq'[delOp'.inst] =
                    Append(cmdq[delOp'.inst], Cmd("DELKEY", 0, delOp'.key, "", 0))
          ELSE /\ val' = [val EXCEPT ![delOp.key] = Nil]
               /\ cmdq'[delOp.inst] = Tail(cmdq[delOp.inst])
    ]_vars

\* The DEL of delete(k) was executed while a Get was fetching for k; that
\* fetch went on, the Get resolved with its value and the value is stored at
\* k again.
C19_Witness ==
  /\ delOp.pc = "done"
  /\ \E c \in delOp.during :
       /\ calls[c].pc = "done" /\ calls[c].out = "resolved"
       /\ calls[c].res = Num(calls[c].fv) /\ calls[c].nfetch = 1
       /\ val[calls[c].key] = getEncodedData(Num(calls[c].fv), calls[c].opt)
       /\ lock[calls[c].key] = NoLock

\* Redis has executed the pipeline SET of Get c.
Wrote(c) ==
  /\ calls[c].nfetch > 0 /\ c \notin PendingSet(calls[c].key)
  /\ \/ calls[c].pc = "pipeline"
     \/ calls[c].pc = "done" /\ calls[c].out = "resolved"

\* C20: set(k, v) is sent and executed whatever the sentinel k:lock says and
\* touches nothing of the lock protocol; when it was called while Get c was
\* fetching for k and both SETs have been executed, the value at k (if it
\* has not run out or been deleted since) is the fetched one if the
\* pipeline's SET was executed after set's, and v otherwise.
C20_SetRacesLastWriteWins ==
  /\ [](\A c \in setOp.during :
          (setOp.pc = "done" /\ Wrote(c) /\ count[setOp.key] = 1
             /\ val[setOp.key] # Nil)
            => val[setOp.key] =
                 IF c \in setOp.later
                 THEN getEncodedData(Num(calls[c].fv), calls[c].opt)
                 ELSE getEncodedData(setOp.data, setOp.opt))
  /\ [][(setOp.pc = "sent" /\ setOp'.pc = "done")
          => /\ val' = [val EXCEPT ![setOp.key] =
                                    getEncodedData(setOp.data, setOp.opt)]
             /\ lock' = lock /\ isLockedCache' = isLockedCache
             /\ subInfo' = subInfo /\ calls' = calls /\ msgs' = msgs
       ]_vars

\* set was called while a Get was fetching and executed before that Get's
\* pipeline: the fetched value has replaced v.
C20_Witness ==
  /\ setOp.pc = "done" /\ count[setOp.key] = 1
  /\ \E c \in setOp.during \cap setOp.later :
       /\ calls[c].pc = "done" /\ calls[c].out = "resolved"
       /\ val[setOp.key] = getEncodedData(Num(calls[c].fv), calls[c].opt)
       /\ val[setOp.key] # getEncodedData(setOp.data, setOp.opt)

(***************************************************************************)
(* Callers that use subscribeOnce themselves, with callbacks of their own. *)
(***************************************************************************)
\* subscribeOnce(channel, {timeoutMs, decode, onSuccess, onError}) called on
\* the redisUtil of instance i, with callbacks that throw or do not.
StartSubscribe(c, i, k, cb, dec) ==
  /\ calls[c].pc = "idle"
  /\ \A d \in Calls : d < c => calls[d].pc # "idle"
  /\ LET S1 == [Cur EXCEPT !.calls[c].inst = i, !.calls[c].key = k,
                           !.calls[c].cb = cb, !.calls[c].pc = "waiting",
                           !.calls[c].opt.decode = dec]
     IN Commit(subscribeOnce(S1, <<c, 0>>, DefaultOpt.lockTimeout, dec))

\* Another client publishes a payload on key_done, one message at a time.
Publish(k) ==
  /\ \A j \in Insts : msgs[j] = <<>>
  /\ \E j \in Insts : k \in subs[j]
  /\ Commit([Cur EXCEPT
               !.msgs = [j \in Insts |->
                           IF k \in subs[j]
                           THEN Append(msgs[j], [k |-> k, s |-> "0"])
                           ELSE msgs[j]]])

NextCallbacks ==
  \/ \E c \in Calls, cb \in {"quiet", "throws"}, dec \in {"json", "throw"} :
       StartSubscribe(c, 1, 1, cb, dec)
  \/ Publish(1)
  \/ \E i \in Insts : ServeSubscribe(i)
  \/ \E i \in Insts : ServeUnsubscribe(i)
  \/ \E i \in Insts : SubscribeFail(i)
  \/ \E i \in Insts : Deliver(i)
  \/ \E t \in timers : TimerFire(t)

SpecCallbacks == Init /\ [][NextCallbacks]_vars

\* A callback of waiter w was invoked and threw.
Threw(w) ==
  calls[w[1]].cb = "throws" /\ (fired[w].s > 0 \/ fired[w].e > 0)

\* C21: an exception thrown by a waiter's onSuccess or onError is passed to
\* errorHandler, on whichever path the callback was invoked, and escapes
\* nowhere else.
C21_CallbackErrorsHandled ==
  /\ \A w \in Waiters : Threw(w) => Err("callback", w) \in errorHandler
  /\ uncaught = {}

(***************************************************************************)
(* Cleanup commands that fail: the connection is lost before the reply.    *)
(***************************************************************************)
\* UNSUBSCRIBE fails: the catch hands the error to errorHandler.
UnsubscribeFail(i) ==
  /\ subq[i] # <<>>
  /\ Head(subq[i]).op = "unsub"
  /\ LET e == Err("unsubscribe", Head(subq[i]).w)
     IN Commit([Cur EXCEPT !.subq[i] = Tail(@),
                           !.errorHandler = @ \cup {e},
                           !.cleanupFailed = @ \cup {e}])

\* The DEL key:lock sent after a failed fetch fails: its catch calls
\* errorHandler (with the fetch error).
DelFail(i) ==
  /\ HeadIs(i, "DEL")
  /\ LET c == Head(cmdq[i]).c
         e == Err("del", <<c, calls[c].att>>)
     IN Commit([Popped(i) EXCEPT !.errorHandler = @ \cup {e},
                                 !.cleanupFailed = @ \cup {e}])

\* The pipeline of a fetcher fails as a whole.  Nothing catches around
\* exec(): either the client reports the failure in the reply array and the
\* Get returns its value, or exec() rejects and the Get rejects with it,
\* before isLockedCache.delete(key).
PipelineFail(i) ==
  /\ cmdq[i] # <<>>
  /\ LET m == Head(cmdq[i])
         c == m.c
         rest == SelectSeq(cmdq[i],
                           LAMBDA x : ~(x.c = c /\ x.op \in {"PSET", "PUBLISH", "PDEL"}))
         S1 == [Cur EXCEPT !.cmdq[i] = rest,
                           !.cleanupFailed =
                             @ \cup {Err("pipeline", <<c, calls[c].att>>)}]
     IN /\ m.op \in {"PSET", "PUBLISH"}
        /\ m.op = (IF calls[c].opt.cacheIf THEN "PSET" ELSE "PUBLISH")
        /\ \E rejects \in BOOLEAN :
             Commit(IF rejects
                    THEN reject(S1, c, StoreError)
                    ELSE resolve([S1 EXCEPT !.isLockedCache[i] = @ \ {m.k}], c,
                                 FetchValue(Cur, c)))

NextCleanupFail ==
  \/ Gets({1, 2})
  \/ System
  \/ \E i \in Insts : UnsubscribeFail(i)
  \/ \E i \in Insts : DelFail(i)
  \/ \E i \in Insts : PipelineFail(i)

SpecCleanupFail == Init /\ [][NextCleanupFail]_vars

\* C22: every cleanup command that failed (UNSUBSCRIBE, the DEL of the lock
\* after a failed fetch, the fetcher's pipeline) was reported to errorHandler;
\* no Get is rejected with the store's error, and the Get whose DEL failed is
\* rejected with its fetch error.
C22_CleanupErrorsToHandlerOnly ==
  /\ cleanupFailed \subseteq errorHandler
  /\ \A c \in Calls :
       /\ calls[c].res # StoreError
       /\ Err("del", <<c, calls[c].att>>) \in cleanupFailed
            => calls[c].out = "rejected" /\ calls[c].res = FetchError(calls[c].fv)

\* C23: a Get invokes fetch at most once over all its attempts; once it has
\* invoked fetch it is fetching, running its pipeline or finished (it never
\* reads, locks or waits again), and it finishes with what its fetch gave:
\* resolved with the fetched value or rejected with the fetch's error.
C23_AtMostOneFetchPerGet ==
  \A c \in Calls :
    /\ calls[c].nfetch <= 1
    /\ calls[c].nfetch = 1 =>
         /\ calls[c].pc \in {"fetching", "pipeline", "done"}
         /\ calls[c].pc = "done" =>
              \/ calls[c].out = "resolved" /\ calls[c].res = Num(calls[c].fv)
              \/ calls[c].out = "rejected" /\ calls[c].res = FetchError(calls[c].fv)

\* A Get whose first two waits timed out acquired the lock on its third
\* attempt, fetched once and returned the fetched value.
C23_Witness ==
  \E c \in Calls :
    /\ calls[c].att = 2 /\ calls[c].nfetch = 1 /\ calls[c].pc = "done"
    /\ calls[c].out = "resolved" /\ calls[c].res = Num(calls[c].fv)
    /\ fired[<<c, 0>>].e = 1 /\ fired[<<c, 1>>].e = 1

\* Redis executes the PUBLISH at the head of the queue of instance i.
PublishStep(i) == HeadIs(i, "PUBLISH") /\ cmdq'[i] = Tail(cmdq[i])

\* Redis executes the pipeline's DEL at the head of the queue of instance i.
ReleaseStep(i) == HeadIs(i, "PDEL") /\ cmdq'[i] = Tail(cmdq[i])

\* The commands of Get c that are queued, in queue order.
QueuedOf(c) ==
  LET q == cmdq[calls[c].inst]
  IN [n \in 1..Len(SelectSeq(q, LAMBDA x : x.c = c)) |->
        SelectSeq(q, LAMBDA x : x.c = c)[n].op]

\* C24 as stated: when the message is published the value is stored and the
\* lock is held, and when the pipeline releases the lock the value is stored.
C24_PublishAfterStoreBeforeRelease ==
  [][\A i \in Insts :
       /\ PublishStep(i) =>
            /\ val[Head(cmdq[i]).k] = Head(cmdq[i]).s
            /\ lock[Head(cmdq[i]).k] # NoLock
       /\ ReleaseStep(i) =>
            val[Head(cmdq[i]).k]
              = getEncodedData(Num(calls[Head(cmdq[i]).c].fv), calls[Head(cmdq[i]).c].opt)
    ]_vars

\* C24: a successful fetch with caching queues SET key, PUBLISH key_done,
\* DEL key:lock in that order and Redis executes them in that order: when
\* the message is published the fetcher's SET has been executed and its DEL
\* has not.  If no sentinel of the key has run out by TTL, the lock is then
\* still the fetcher's and the key holds the published value or, its own TTL
\* over, nothing; and the same holds for the value when the DEL is executed.
C24_PipelineOrder ==
  [][/\ \A c \in Calls :
          (calls[c].pc = "fetching" /\ calls'[c].pc = "pipeline"
             /\ calls[c].opt.cacheIf)
            => LET i == calls[c].inst
                   k == calls[c].key
                   s == getEncodedData(Num(calls[c].fv), calls[c].opt)
               IN cmdq'[i] = cmdq[i] \o <<Cmd("PSET", c, k, s, calls[c].opt.ttlMs),
                                          Cmd("PUBLISH", c, k, s, 0),
                                          Cmd("PDEL", c, k, "", 0)>>
     /\ \A i \in Insts :
          LET m == Head(cmdq[i])
          IN /\ PublishStep(i) =>
                  /\ QueuedOf(m.c) = <<"PUBLISH", "PDEL">>
                  /\ m.k \notin expired =>
                       lock[m.k].owner = m.c /\ val[m.k] \in {m.s, Nil}
             /\ ReleaseStep(i) =>
                  /\ QueuedOf(m.c) = <<"PDEL">>
                  /\ m.k \notin expired =>
                       /\ lock[m.k].owner = m.c /\ lock'[m.k] = NoLock
                       /\ val[m.k] \in
                            {getEncodedData(Num(calls[m.c].fv), calls[m.c].opt), Nil}
    ]_vars

\* The message of a fetcher has been published and its DEL is next: the
\* value is stored and the sentinel is the fetcher's own.
C24_Witness ==
  \E c \in Calls :
    /\ calls[c].pc = "pipeline" /\ QueuedOf(c) = <<"PDEL">>
    /\ Head(cmdq[calls[c].inst]).c = c
    /\ val[calls[c].key] = getEncodedData(Num(calls[c].fv), calls[c].opt)
    /\ lock[calls[c].key].owner = c /\ calls[c].key \notin expired
    /\ \E j \in Insts : msgs[j] # <<>>

\* The places of the queues Q that hold a PUBLISH of Get c.
PublishesOf(Q, c) ==
  UNION {{<<i, n>> : n \in {n \in 1..Len(Q[i]) :
                               Q[i][n].op = "PUBLISH" /\ Q[i][n].c = c}} :
         i \in Insts}

\* C25: a PUBLISH on key_done is queued only by a Get that acquired the lock
\* and whose fetch succeeded, once, with the fetch's encoded value and with
\* the pipeline's DEL key:lock right behind it; a Get whose fetch failed
\* queues none; and a message is in flight only because such a PUBLISH was
\* executed, and carries its payload.
C25_PublishOnlyAfterFetch ==
  /\ [](\A c \in Calls : \A p \in PublishesOf(cmdq, c) :
          LET q == cmdq[p[1]]
              m == q[p[2]]
          IN /\ calls[c].pc = "pipeline" /\ calls[c].nfetch = 1
             /\ p[1] = calls[c].inst /\ m.k = calls[c].key
             /\ m.s = getEncodedData(Num(calls[c].fv), calls[c].opt)
             /\ PublishesOf(cmdq, c) = {p}
             /\ p[2] < Len(q) /\ q[p[2] + 1] = Cmd("PDEL", c, m.k, "", 0))
  /\ [][/\ \A c \in Calls :
              /\ Cardinality(PublishesOf(cmdq', c)) > Cardinality(PublishesOf(cmdq, c))
                   => calls[c].pc = "fetching" /\ PublishesOf(cmdq, c) = {}
              /\ (calls[c].pc = "fetching" /\ calls'[c].pc = "pipeline")
                   => Cardinality(PublishesOf(cmdq', c)) = 1
              /\ (calls[c].pc = "fetching" /\ calls'[c].pc = "done")
                   => /\ calls'[c].res = FetchError(calls[c].fv)
                      /\ PublishesOf(cmdq', c) = {}
         /\ \A j \in Insts :
              msgs'[j] # msgs[j] /\ Len(msgs'[j]) >= Len(msgs[j])
                => \E i \in Insts :
                     /\ PublishStep(i)
                     /\ msgs'[j] = Append(msgs[j], [k |-> Head(cmdq[i]).k,
                                                    s |-> Head(cmdq[i]).s])
       ]_vars

\* The message of a successful fetch is on its way to a subscriber, after
\* another Get's fetch failed without a message.
C25_Witness ==
  /\ \E j \in Insts : msgs[j] # <<>>
  /\ \E d \in Calls : FailedFetch(d)
  /\ \E c \in Calls : calls[c].pc = "pipeline" /\ QueuedOf(c) = <<"PDEL">>

TimesOut(w) == fired'[w].e > fired[w].e

\* Get c, on a later attempt, is answered its GET or its SET NX in this step.
Reread(c) == calls[c].att > 0 /\ calls[c].pc = "get" /\ calls'[c].pc # "get"
Relocks(c) == calls[c].att > 0 /\ calls[c].pc = "setnx" /\ calls'[c].pc # "setnx"

\* C27: the timeout of a waiter leaves the sentinel and the value alone and
\* sends neither DEL nor SET: with attempts left the Get starts over with a
\* GET.  On a miss it goes through isLocked again (SET NX, unless the key is
\* marked locally), and if the sentinel is gone when its SET NX is executed
\* it becomes the fetcher; a Get that fetched on a later attempt ends with its
\* own fetch's value or error.
C27_TimedOutWaiterRestartsGet ==
  /\ [][/\ \A w \in Waiters :
            TimesOut(w) =>
              LET c == w[1]
                  i == calls[c].inst
                  k == calls[c].key
              IN /\ lock' = lock /\ val' = val /\ count' = count
                 /\ IF w[2] < maxAttemptsOf(calls[c].opt) - 1
                    THEN /\ calls'[c].pc = "get" /\ calls'[c].att = w[2] + 1
                         /\ calls'[c].out = "pending"
                         /\ cmdq' = [cmdq EXCEPT ![i] = Append(@, Cmd("GET", c, k, "", 0))]
                    ELSE /\ calls'[c].pc = "done" /\ calls'[c].out = "rejected"
                         /\ calls'[c].res = NeverUnlocked
                         /\ cmdq' = cmdq
        /\ \A c \in Calls :
              LET i == calls[c].inst
                  k == calls[c].key
              IN /\ Reread(c) =>
                      IF Truthy(val[k])
                      THEN /\ calls'[c].pc = "done" /\ calls'[c].out = "resolved"
                           /\ calls'[c].res = decode(calls[c].opt.decode, val[k])
                           /\ count' = count /\ lock' = lock
                      ELSE IF k \in isLockedCache[i]
                      THEN calls'[c].pc = "waiting" /\ cmdq'[i] = Tail(cmdq[i])
                      ELSE /\ calls'[c].pc = "setnx"
                           /\ cmdq'[i] = Append(Tail(cmdq[i]),
                                                Cmd("SETNX", c, k, "locked",
                                                    calls[c].opt.lockTimeout))
                 /\ Relocks(c) =>
                      IF lock[k] = NoLock
                      THEN /\ calls'[c].pc = "fetching" /\ lock'[k].owner = c
                           /\ calls'[c].nfetch = 1 /\ count'[k] = count[k] + 1
                      ELSE calls'[c].pc = "waiting" /\ lock' = lock /\ count' = count
       ]_vars
  /\ [](\A c \in Calls :
          (calls[c].att > 0 /\ calls[c].nfetch = 1 /\ calls[c].pc = "done")
            => \/ calls[c].out = "resolved" /\ calls[c].res = Num(calls[c].fv)
               \/ calls[c].out = "rejected" /\ calls[c].res = FetchError(calls[c].fv))

\* The fetch of the first Get outlasted lockTimeout: the second Get's wait
\* timed out, it acquired the lock on its second attempt and returned its own
\* fetch's value, and the first Get returned its own.
C27_Witness ==
  /\ calls[1].pc = "done" /\ calls[1].out = "resolved" /\ calls[1].res = Num(0)
  /\ calls[2].pc = "done" /\ calls[2].out = "resolved" /\ calls[2].res = Num(1)
  /\ calls[2].att = 1 /\ calls[2].nfetch = 1 /\ fired[<<2, 0>>].e = 1
  /\ 1 \in lapsed /\ calls[3].pc = "idle"

(***************************************************************************)
(* What isLockedCache says about the callers of the instance.              *)
(***************************************************************************)
\* The Gets of instance i on key k in the stages S.
LocalIn(i, k, S) ==
  {c \in Calls : calls[c].inst = i /\ calls[c].key = k /\ calls[c].pc \in S}

\* Get c leaves getLockOrWaitForLock in this step: its fetch fails, its
\* pipeline is done, or a callback of its wait is called.
Leaves(c) ==
  /\ calls[c].pc \in {"fetching", "pipeline", "waiting"}
  /\ calls'[c].pc \notin {"fetching", "pipeline", "waiting"}

SetNxInFlight(Q, i, k) ==
  {c \in Calls : \E n \in 1..Len(Q[i]) :
     Q[i][n].op = "SETNX" /\ Q[i][n].c = c /\ Q[i][n].k = k}

\* No Get of instance i on key k has left getLockOrWaitForLock so far.
NoneLeft(i, k) ==
  \A c \in Calls :
    (calls[c].inst = i /\ calls[c].key = k)
      => /\ calls[c].nfetch = 0 \/ calls[c].pc \in {"fetching", "pipeline"}
         /\ \A a \in Attempts : fired[<<c, a>>] = [s |-> 0, e |-> 0]

\* C29 as stated: among the callers of one instance on one key at most one
\* SET NX on key:lock is in flight at a time.
C29_OneSetNxInFlight ==
  \A i \in Insts, k \in Keys : Cardinality(SetNxInFlight(cmdq, i, k)) <= 1

\* C29, amended: a Get that finds key in isLockedCache sends no SET NX and
\* becomes a waiter; a SET NX is sent only when key is not in isLockedCache,
\* and key is put there in the same step, before the reply; so at most one
\* SET NX of the instance on key:lock is in flight until a Get of the
\* instance on key leaves (its wait or its fetch ends) and takes key out.
C29_SetNxOnlyWhenUnmarked ==
  /\ [][\A c \in Calls :
          LET i == calls[c].inst
              k == calls[c].key
          IN /\ (calls[c].pc = "get" /\ calls'[c].pc \notin {"get", "done"}
                   /\ k \in isLockedCache[i])
                  => /\ calls'[c].pc = "waiting"
                     /\ SetNxInFlight(cmdq', i, k) = SetNxInFlight(cmdq, i, k)
             /\ (c \in SetNxInFlight(cmdq', calls'[c].inst, calls'[c].key)
                   /\ c \notin SetNxInFlight(cmdq, i, k))
                  => /\ calls'[c].key \notin isLockedCache[calls'[c].inst]
                     /\ calls'[c].key \in isLockedCache'[calls'[c].inst]
       ]_vars
  /\ [](\A i \in Insts, k \in Keys :
          NoneLeft(i, k) => Cardinality(SetNxInFlight(cmdq, i, k)) <= 1)

\* Two Gets of one instance race on a key nobody has locked: the SET NX of
\* one is in flight and the other waits without having sent one.
C29_Witness ==
  \E c, d \in Calls :
    /\ calls[c].pc = "setnx" /\ calls[d].pc = "waiting"
    /\ calls[c].inst = calls[d].inst /\ calls[c].key = calls[d].key
    /\ SetNxInFlight(cmdq, calls[c].inst, calls[c].key) = {c}
    /\ count[calls[c].key] = 0 /\ NoneLeft(calls[c].inst, calls[c].key)

(***************************************************************************)
(* Whose sentinel a release removes.                                       *)
(***************************************************************************)
\* Redis executes the DEL key:lock at the head of instance i's queue (the
\* DEL of a pipeline or the DEL sent after a failed fetch) and a sentinel
\* goes away with it.
Releases(i) ==
  /\ HeadIs(i, "PDEL") \/ HeadIs(i, "DEL")
  /\ cmdq'[i] = Tail(cmdq[i])
  /\ lock[Head(cmdq[i]).k] # NoLock
  /\ lock'[Head(cmdq[i]).k] = NoLock

\* C30: a fetcher's release removes only the sentinel that this fetcher
\* created with its own SET NX, never one that another caller acquired after
\* the fetcher's sentinel had run out.
C30_ReleaseRemovesOwnSentinelOnly ==
  [][\A i \in Insts :
       Releases(i) => lock[Head(cmdq[i]).k].owner = Head(cmdq[i]).c]_vars

(***************************************************************************)
(* Does a waiter get the message of the fetch it waits for?                *)
(***************************************************************************)
\* The Gets that became waiters on key k while the sentinel now at k:lock
\* was there, and whose wait has not ended.
WaitersOnLock(k) ==
  {d \in Calls : /\ calls[d].pc = "waiting" /\ calls[d].key = k
                 /\ \E t \in timers : t.w = <<d, calls[d].att>> /\ t.blk = lock[k].id}

\* C31: a caller that became a waiter because the lock was held is sent the
\* message the lock's fetcher publishes: when the fetcher's PUBLISH is
\* executed, the subscription client of every such waiter is subscribed.
C31_WaiterGetsFetchersMessage ==
  [][\A i \in Insts :
       (PublishStep(i) /\ lock[Head(cmdq[i]).k].owner = Head(cmdq[i]).c)
         => \A d \in WaitersOnLock(Head(cmdq[i]).k) :
              Head(cmdq[i]).k \in subs[calls[d].inst]]_vars

(***************************************************************************)
(* A Get that went for the lock and ends in an error that is not its       *)
(* fetch's.                                                                *)
(***************************************************************************)
\* The SET key:lock NX of isLocked is rejected (the store cannot be reached
\* and has not executed it): the await in isLocked throws and the Get
\* rejects.
SetNxFail(i) ==
  /\ HeadIs(i, "SETNX")
  /\ Commit(reject(Popped(i), Head(cmdq[i]).c, StoreError))

\* fetch() settled with a value and opt.encode, opt.cacheIf or opt.ttlMs
\* throws: getLockOrWaitForLock rejects before it builds the pipeline.
AfterFetchThrows(c) ==
  /\ calls[c].pc = "fetching"
  /\ Commit(reject(Cur, c, CodecError))

NextAbort ==
  \/ Gets({1, 2})
  \/ System
  \/ \E i \in Insts : SetNxFail(i)
  \/ \E c \in Calls : AfterFetchThrows(c)
  \/ \E i \in Insts : PipelineFail(i)

SpecAbort == Init /\ [][NextAbort]_vars

\* The Get c is rejected in this step with an error of the store or of the
\* codec.
Aborts(c) ==
  /\ calls[c].out = "pending"
  /\ calls'[c].out = "rejected"
  /\ calls'[c].res \in {StoreError, CodecError}

\* C32: when a Get that went for the lock is rejected with an error other
\* than its fetch's (SET NX failed, encode / cacheIf / ttlMs threw, the
\* pipeline failed), its key is no longer in isLockedCache and a sentinel it
\* acquired is gone or its DEL is on the way.
C32_AbortUnmarksAndReleases ==
  [][\A c \in Calls :
       Aborts(c)
         => /\ calls[c].key \notin isLockedCache'[calls[c].inst]
            /\ lock'[calls[c].key].owner = c
                 => \E n \in 1..Len(cmdq'[calls[c].inst]) :
                      /\ cmdq'[calls[c].inst][n].op \in {"DEL", "PDEL"}
                      /\ cmdq'[calls[c].inst][n].k = calls[c].key]_vars

(***************************************************************************)
(* The subscription layer on its own: callers of subscribeOnce whose        *)
(* callbacks return, or subscribe again on the same channel.               *)
(***************************************************************************)
NextSubs ==
  \/ \E c \in Calls, cb \in {"quiet", "resub"}, dec \in {"json", "throw"} :
       StartSubscribe(c, 1, 1, cb, dec)
  \/ Publish(1)
  \/ \E i \in Insts : ServeSubscribe(i)
  \/ \E i \in Insts : ServeUnsubscribe(i)
  \/ \E i \in Insts : SubscribeFail(i)
  \/ \E i \in Insts : Deliver(i)
  \/ \E t \in timers : TimerFire(t)

SpecSubs == Init /\ [][NextSubs]_vars

\* The members of a listener list.
Listeners(ws) == {ws[n] : n \in 1..Len(ws)}

\* The subscriptions made from inside the callbacks of the listeners ws.
Resubscribed(ws) ==
  {<<w[1], 1>> : w \in {v \in Listeners(ws) : Resubscribes(Cur, v)}}

\* A message that decodes reaches instance i on a channel that has an entry.
MessageFor(i) ==
  /\ Delivered(i)
  /\ subInfo[i][Head(msgs[i]).k].present
  /\ ~decodeThrows(subInfo[i][Head(msgs[i]).k].decode, Head(msgs[i]).s)

\* C33: on a message for a channel with an entry, every success listener of
\* the entry is called exactly once and nobody else is called, the timers of
\* the entry are cleared, and what is in subInfo afterwards is exactly the
\* entry the callbacks made by subscribing again (none if none did), with
\* the timers of its waiters armed: the old entry was gone before the
\* callbacks ran and the delivery does not touch the new one.
C33_MessageDelivery ==
  [][\A i \in Insts :
       MessageFor(i) =>
         LET k == Head(msgs[i]).k
             info == subInfo[i][k]
             new == Resubscribed(info.callbacks)
         IN /\ \A w \in Waiters :
                  /\ fired'[w].s = fired[w].s
                                     + (IF w \in Listeners(info.callbacks) THEN 1 ELSE 0)
                  /\ fired'[w].e = fired[w].e
            /\ \A t \in timers' : t.w \notin info.timeouts
            /\ subInfo'[i][k].present = (new # {})
            /\ Listeners(subInfo'[i][k].callbacks) = new
            /\ Listeners(subInfo'[i][k].errCallbacks) = new
            /\ subInfo'[i][k].timeouts = new
            /\ \A w \in new : \E t \in timers' : t.w = w]_vars

\* A message was delivered to a listener that subscribed again from its
\* onSuccess: its new subscription is registered with its timer armed, and
\* the timer of the first is gone.
C33_Witness ==
  \E c \in Calls :
    /\ calls[c].cb = "resub" /\ fired[<<c, 0>>].s = 1 /\ fired[<<c, 1>>].s = 0
    /\ <<c, 1>> \in Listeners(subInfo[1][1].callbacks)
    /\ \E t \in timers : t.w = <<c, 1>>
    /\ \A t \in timers : t.w # <<c, 0>>

(***************************************************************************)
(* One waiter's timer fires.                                               *)
(***************************************************************************)
\* The timer t fires in this step.
TimerFires(t) == t \in timers /\ t \notin timers' /\ msgs' = msgs

\* What the waiter w adds by subscribing again from its onError, if it does.
Again(w) ==
  IF w \notin hadCallback /\ Resubscribes(Cur, w) THEN <<<<w[1], 1>>>> ELSE <<>>

\* C34: when the timer of waiter w fires, w alone is taken out of the entry
\* of its channel and its onError wrapper is called (onError runs, once,
\* unless it has run before); no other waiter is called, loses its timer or
\* its place in the entry; the entry is deleted and UNSUBSCRIBE sent exactly
\* when w was the last success listener; and the waiters that stayed are
\* called with a later message.
C34_TimeoutRemovesOneWaiter ==
  /\ [][\A t \in timers :
          TimerFires(t) =>
            LET w == t.w
                i == InstOf(Cur, w)
                k == KeyOf(Cur, w)
                info == subInfo[i][k]
                rest == Without(info.callbacks, w)
                unsub == [op |-> "unsub", k |-> k, w |-> w]
                sub == [op |-> "sub", k |-> k, w |-> <<w[1], 1>>]
            IN /\ \A v \in Waiters \ {w} : fired'[v] = fired[v]
               /\ fired'[w].s = fired[w].s
               /\ fired'[w].e = fired[w].e + (IF w \in hadCallback THEN 0 ELSE 1)
               /\ w \in hadCallback'
               /\ {u \in timers' : u.w[1] # w[1]} = {u \in timers : u.w[1] # w[1]}
               /\ info.present =>
                    /\ subInfo'[i][k].callbacks = rest \o Again(w)
                    /\ subInfo'[i][k].present = (rest \o Again(w) # <<>>)
                    /\ subq'[i] = subq[i]
                                   \o (IF rest = <<>> THEN <<unsub>> ELSE <<>>)
                                   \o (IF rest = <<>> /\ Again(w) # <<>>
                                       THEN <<sub>> ELSE <<>>)]_vars
  /\ [][\A i \in Insts :
          MessageFor(i) =>
            \A w \in Listeners(subInfo[i][Head(msgs[i]).k].callbacks) :
              fired'[w].s = fired[w].s + 1]_vars

\* Two waiters shared an entry; the timer of one has fired and it got its
\* onError; the other is still in the entry with its timer armed, and no
\* UNSUBSCRIBE has been sent.
C34_Witness ==
  \E c, d \in Calls :
    /\ c # d
    /\ subInfo[1][1].present
    /\ subInfo[1][1].callbacks = <<<<d, 0>>>>
    /\ subInfo[1][1].timeouts = {<<c, 0>>, <<d, 0>>}
    /\ fired[<<c, 0>>] = [s |-> 0, e |-> 1]
    /\ \E t \in timers : t.w = <<d, 0>>
    /\ \A n \in 1..Len(subq[1]) : subq[1][n].op # "unsub"
    /\ 1 \in subs[1]

(***************************************************************************)
(* Who sends SUBSCRIBE.                                                    *)
(***************************************************************************)
\* The caller c calls subscribeOnce in this step (from outside any callback).
Subscribes(c) == calls[c].pc = "idle" /\ calls'[c].pc = "waiting"

\* The waiters whose SUBSCRIBE for the channel of k is in the queue Q of i.
SubscribeSentBy(Q, i, k) ==
  {Q[i][n].w : n \in {m \in 1..Len(Q[i]) : Q[i][m].op = "sub" /\ Q[i][m].k = k}}

\* C35: subscribeOnce on a channel that has an entry appends the waiter to
\* the entry and arms its timer and sends nothing; on a channel without an
\* entry it makes the entry and sends one SUBSCRIBE.  So of the waiters of
\* an entry only the first, who made it, has sent a SUBSCRIBE.
C35_OneSubscribePerEntry ==
  /\ [][\A c \in Calls :
          Subscribes(c) =>
            LET w == <<c, 0>>
                i == calls'[c].inst
                k == calls'[c].key
                info == subInfo[i][k]
            IN /\ \E t \in timers' \ timers : t.w = w
               /\ w \in subInfo'[i][k].timeouts
               /\ info.present =>
                    /\ subInfo'[i][k].callbacks = Append(info.callbacks, w)
                    /\ subInfo'[i][k].errCallbacks = Append(info.errCallbacks, w)
                    /\ subInfo'[i][k].decode = info.decode
                    /\ subq' = subq
               /\ ~info.present =>
                    /\ subInfo'[i][k].callbacks = <<w>>
                    /\ subq'[i] = Append(subq[i], [op |-> "sub", k |-> k, w |-> w])
     ]_vars
  /\ [](\A i \in Insts, k \in Keys :
          \A w \in SubscribeSentBy(subq, i, k) \cap Listeners(subInfo[i][k].callbacks) :
            w = subInfo[i][k].callbacks[1])

\* Two waiters are in the entry of a channel, each with its timer armed, and
\* the only SUBSCRIBE sent is the first waiter's.
C35_Witness ==
  \E c, d \in Calls :
    /\ c # d
    /\ subInfo[1][1].callbacks = <<<<c, 0>>, <<d, 0>>>>
    /\ subq[1] = <<[op |-> "sub", k |-> 1, w |-> <<c, 0>>]>>
    /\ \A w \in {<<c, 0>>, <<d, 0>>} : \E t \in timers : t.w = w
    /\ subs[1] = {}

(***************************************************************************)
(* The upstream SUBSCRIBE fails.                                           *)
(***************************************************************************)
\* The SUBSCRIBE at the head of the subscription client's queue, for a
\* channel the client is not subscribed to, is answered with an error in
\* this step: it leaves the queue and the client stays unsubscribed.
SubscribeFails(i) ==
  /\ subq[i] # <<>>
  /\ Head(subq[i]).op = "sub"
  /\ Head(subq[i]).k \notin subs[i]
  /\ subs' = subs
  /\ \/ subq'[i] = Tail(subq[i])
     \/ subq'[i] = Append(Tail(subq[i]),
                          [op |-> "unsub", k |-> Head(subq[i]).k, w |-> Head(subq[i]).w])

DecodeFails(i) ==
  /\ Delivered(i)
  /\ subInfo[i][Head(msgs[i]).k].present
  /\ decodeThrows(subInfo[i][Head(msgs[i]).k].decode, Head(msgs[i]).s)

\* C37: when decode throws on a message, no success listener is called,
\* every error listener of the entry is called once, the timers of the
\* entry are cleared, the entry is removed (what subInfo holds afterwards is
\* only what the error listeners made by subscribing again) and UNSUBSCRIBE
\* is sent for the channel after everything else.
C37_DecodeFailure ==
  [][\A i \in Insts :
       DecodeFails(i) =>
         LET k == Head(msgs[i]).k
             info == subInfo[i][k]
             new == Resubscribed(info.errCallbacks)
         IN /\ \A w \in Waiters :
                  /\ fired'[w].s = fired[w].s
                  /\ fired'[w].e = fired[w].e
                                     + (IF w \in Listeners(info.errCallbacks) THEN 1 ELSE 0)
            /\ Listeners(info.errCallbacks) \subseteq hadCallback'
            /\ \A t \in timers' : t.w \notin info.timeouts
            /\ subInfo'[i][k].present = (new # {})
            /\ Listeners(subInfo'[i][k].callbacks) = new
            /\ subq'[i] # <<>>
            /\ subq'[i][Len(subq'[i])] = [op |-> "unsub", k |-> k, w |-> <<0, 0>>]
    ]_vars

\* Two waiters of one entry have both been handed the decode error: each
\* had onError and no onSuccess, no timer is armed, the entry is gone and
\* the handler's UNSUBSCRIBE is queued.
C37_Witness ==
  \E c, d \in Calls :
    /\ c # d
    /\ fired[<<c, 0>>] = [s |-> 0, e |-> 1]
    /\ fired[<<d, 0>>] = [s |-> 0, e |-> 1]
    /\ timers = {}
    /\ ~subInfo[1][1].present
    /\ subq[1] = <<[op |-> "unsub", k |-> 1, w |-> <<0, 0>>]>>

(***************************************************************************)
(* Is the client subscribed while subInfo has an entry?                    *)
(***************************************************************************)
\* Callers of subscribeOnce as in SpecSubs, with every SUBSCRIBE answered OK.
NextResub ==
  \/ \E c \in Calls, cb \in {"quiet", "resub"}, dec \in {"json", "throw"} :
       StartSubscribe(c, 1, 1, cb, dec)
  \/ Publish(1)
  \/ \E i \in Insts : ServeSubscribe(i)
  \/ \E i \in Insts : ServeUnsubscribe(i)
  \/ \E i \in Insts : Deliver(i)
  \/ \E t \in timers : TimerFire(t)

SpecResub == Init /\ [][NextResub]_vars

\* C38: whenever subInfo has an entry for a channel and the SUBSCRIBE sent
\* for it has been answered, the subscription client is subscribed to the
\* channel: no UNSUBSCRIBE sent for an earlier entry takes the subscription
\* of a later one away, also not of one made from inside a callback.
C38_EntryImpliesSubscribed ==
  \A i \in Insts, k \in Keys :
    (subInfo[i][k].present /\ SubscribeSentBy(subq, i, k) = {}) => k \in subs[i]

(***************************************************************************)
(* Two keys.                                                               *)
(***************************************************************************)
\* The second key is an unrelated string, or the string the first key's
\* sentinel is kept under.
NameChoices == {DefaultNames, [k \in Keys |-> IF k = 1 THEN "a" ELSE lockKey("a")]}

InitNames == \E names \in NameChoices : InitWith(names)

GetsOn(CS, IS, KS, OS) ==
  \E c \in CS, i \in IS, k \in KS, o \in OS : SameClient(o) /\ StartGet(c, i, k, o)

OptNames == {[DefaultOpt EXCEPT !.maxAttempts = 1]}

\* Two Gets of one instance on either key, a set and a delete on the first.
NextNames ==
  \/ GetsOn({1, 2}, {1}, Keys, OptNames)
  \/ System
  \/ StartSet(OptNames)
  \/ StartDelete
  \/ \E i \in Insts : ServeSet(i)
  \/ \E i \in Insts : ServeDelete(i)

SpecNames == InitNames /\ [][NextNames]_vars

\* What belongs to key k: the string stored at it, its sentinel, what else
\* is at key:lock, its membership in isLockedCache and its subInfo entries.
KeyState(k) ==
  [stored |-> RedisGet(Cur, k),
   lock |-> lock[k],
   atLock |-> {val[j] : j \in ValuesAtLock(Cur, k)},
   marked |-> {i \in Insts : k \in isLockedCache[i]},
   entry |-> [i \in Insts |-> subInfo[i][k]]]

Touched(k) == KeyState(k)' # KeyState(k)

\* Only what belongs to key k changes in this step.
Only(k) == \A j \in Keys \ {k} : ~Touched(j)

\* Each step of a Get, a set, a delete, a command, a message or a timer of
\* one key changes only what belongs to that key, a message reaches only
\* waiters of its own channel, and no step changes two keys.
Frame ==
  /\ \A c \in Calls : calls'[c] # calls[c] => Only(calls'[c].key)
  /\ setOp' # setOp => Only(setOp'.key)
  /\ delOp' # delOp => Only(delOp'.key)
  /\ \A i \in Insts :
       (cmdq[i] # <<>> /\ cmdq'[i] = Tail(cmdq[i])) => Only(Head(cmdq[i]).k)
  /\ \A i \in Insts :
       Delivered(i) =>
         /\ Only(Head(msgs[i]).k)
         /\ \A w \in Waiters :
              fired'[w] # fired[w] => calls[w[1]].key = Head(msgs[i]).k
  /\ \A t \in timers \ timers' : Only(calls[t.w[1]].key)
  /\ Cardinality({k \in Keys : Touched(k)}) <= 1

\* A Get that resolved did so with a value its own key's fetch returned or,
\* on the key of set(), with the value that was set.
OwnFetch ==
  \A c \in Calls :
    calls[c].out = "resolved" =>
      \/ \E n \in 0..(count[calls[c].key] - 1) : calls[c].res = Num(n)
      \/ setOp.pc # "idle" /\ setOp.key = calls[c].key /\ calls[c].res = setOp.data

\* One key's name is the lockKey of the other's.
Related == \E j, k \in Keys : keyName[j] = lockKey(keyName[k])

\* C39 as stated: operations on one key never affect another key.
C39_KeysIndependent == [][Frame]_vars /\ []OwnFetch

\* C39, amended: operations on one key do not affect another key unless
\* one of the two is the other followed by ":lock".
C39_UnrelatedKeysIndependent == [][~Related => Frame]_vars /\ []OwnFetch

\* Gets on two keys that are unrelated strings have each run their own
\* fetch and returned its value, and both values are stored.
C39_Witness ==
  /\ ~Related
  /\ calls[1].key = 1 /\ calls[2].key = 2
  /\ calls[1].out = "resolved" /\ calls[2].out = "resolved"
  /\ calls[1].res = Num(0) /\ calls[2].res = Num(0)
  /\ count = [k \in Keys |-> 1]
  /\ val = [k \in Keys |-> "0"]

(***************************************************************************)
(* What a Get returns: the fetched value, or a decoded string.             *)
(***************************************************************************)
\* get(key, opt, fetch) of a client handle whose fetch function is f.
StartGetOf(c, i, k, o, f) ==
  /\ calls[c].pc = "idle"
  /\ \A d \in Calls : d < c => calls[d].pc # "idle"
  /\ \A d \in Started : calls[d].fetch = f
  /\ LET S1 == [Cur EXCEPT !.calls[c].inst = i, !.calls[c].key = k,
                           !.calls[c].opt = o, !.calls[c].fetch = f,
                           !.calls[c].alone =
                             \A d \in Calls : calls[d].pc \in {"idle", "done"}]
     IN Commit(RunMicrotasks(get(S1, c, 0), <<c>>))

\* Gets of one instance on one key, through a client handle with the default
\* codec whose fetch counts or resolves to undefined.
NextFetched ==
  \/ \E c \in Calls, f \in {"count", "undefined"} :
       StartGetOf(c, 1, 1, [DefaultOpt EXCEPT !.maxAttempts = 1], f)
  \/ System

SpecFetched == Init /\ [][NextFetched]_vars

\* The strings the fetchers of key k have encoded so far.
EncodedFor(k) ==
  {getEncodedData(FetchValue(Cur, d), calls[d].opt) :
     d \in {e \in Calls : calls[e].key = k /\ calls[e].nfetch > 0}}

\* C40: a Get that fetched resolves with the very value its fetch returned;
\* a Get that did not fetch (a waiter, or a reader of the stored string)
\* resolves with decode of a string a fetcher encoded; what is stored is
\* such a string.  With the default codec a fetch result of undefined is
\* encoded as "null": the fetcher resolves with undefined, the others with
\* null.
C40_FetcherRawOthersDecoded ==
  /\ \A k \in Keys : val[k] \in {Nil} \cup EncodedFor(k)
  /\ \A c \in Calls :
       calls[c].out = "resolved" =>
         /\ calls[c].nfetch > 0 => calls[c].res = FetchValue(Cur, c)
         /\ calls[c].nfetch = 0 =>
              calls[c].res \in {decode(calls[c].opt.decode, s) :
                                  s \in EncodedFor(calls[c].key)}
         /\ calls[c].fetch = "undefined" =>
              /\ EncodedFor(calls[c].key) = {"null"}
              /\ calls[c].res = (IF calls[c].nfetch > 0 THEN Undefined ELSE NullV)

\* The fetch resolved to undefined: the fetcher returned undefined, a waiter
\* was handed null by the message, a later Get read "null" from the key and
\* returned null without waiting.
C40_Witness ==
  /\ val[1] = "null"
  /\ \E c, d, e \in Calls :
       /\ calls[c].fetch = "undefined"
       /\ calls[c].out = "resolved" /\ calls[c].nfetch = 1 /\ calls[c].res = Undefined
       /\ calls[d].out = "resolved" /\ fired[<<d, 0>>].s = 1 /\ calls[d].res = NullV
       /\ calls[e].out = "resolved" /\ calls[e].nfetch = 0
       /\ fired[<<e, 0>>] = [s |-> 0, e |-> 0] /\ calls[e].res = NullV

====
